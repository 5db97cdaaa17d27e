---------------------------- MODULE ChannelProofs ----------------------------
(***************************************************************************)
(* Proofs about Channel, for any number of clients and calls, any queue    *)
(* and any heaps, whoever dies and however often the server is replaced.   *)
(***************************************************************************)
EXTENDS Channel, ListLemmas, FiniteSetTheorems

-----------------------------------------------------------------------------
(* The inductive invariant *)

ClientState == [pc : {"idle", "claim", "alloc", "handle", "size", "recv", "wait"},
                slot : Slots, block : ReqBlocks \cup {NoBlock}]

ServerState == [pc : {"idle", "handle", "size", "reply"}, pos : Slots, slot : Slots,
                block : ReqBlocks \cup {NoBlock}, message : Message]

Request == [empty : BOOLEAN, address_handle : ReqBlocks \cup {NoBlock},
            size : Call \cup {Nothing}]

Response == [empty : BOOLEAN, message : Message \cup {Error}]

(* The types of the variables, fields and all.                             *)
Types ==
  /\ counter \in Slots
  /\ req \in [Slots -> Request]
  /\ resp \in [Slots -> Response]
  /\ memory \in [ReqBlocks -> Call \cup {Nothing}]
  /\ live \in Seq(ReqBlocks)
  /\ respUsed \in 0 .. RespBlocks
  /\ client \in [Clients -> ClientState]
  /\ server \in ServerState
  /\ calls \in [Clients -> Nat]
  /\ alive \subseteq Clients /\ restarts \in 0 .. MaxRestarts

Inside(c) == client[c].pc \in {"alloc", "handle", "size", "recv", "wait"}
HasBlock(c) == client[c].pc \in {"handle", "size", "recv", "wait"}
Linked(c) == client[c].pc \in {"size", "recv", "wait"}
Filled(c) == client[c].pc \in {"recv", "wait"}

(* An element that is not empty has one client inside, an empty one none.  *)
ElementsInv ==
  /\ \A c \in Clients : Inside(c) => ~ req[client[c].slot].empty
  /\ \A c, d \in Clients :
       c # d /\ Inside(c) /\ Inside(d) => client[c].slot # client[d].slot
  /\ \A q \in Slots :
       ~ req[q].empty => \E c \in Clients : Inside(c) /\ client[c].slot = q

(* A client has a block of its own with its message, which the request of  *)
(* its element points to; only a client that is done has given a size.     *)
RequestsInv ==
  /\ NoDuplicates(live)
  /\ \A c \in Clients : HasBlock(c) =>
       /\ client[c].block \in ReqBlocks /\ Listed(client[c].block, live)
       /\ memory[client[c].block] = Current(c)
  /\ \A c, d \in Clients :
       c # d /\ HasBlock(c) /\ HasBlock(d) => client[c].block # client[d].block
  /\ \A c \in Clients : Linked(c) =>
       req[client[c].slot].address_handle = client[c].block
  /\ \A c \in Clients : Filled(c) => req[client[c].slot].size \in {Current(c), Nothing}
  /\ \A q \in Slots : req[q].size # Nothing =>
       \E c \in Clients : Filled(c) /\ client[c].slot = q

ChannelInv == Types /\ ElementsInv /\ RequestsInv

-----------------------------------------------------------------------------
(* The invariant is inductive                                              *)

(* A position stands for an element.                                       *)
LEMMA SlotRange == 0 \in Slots /\ \A n \in Int : Slot(n) \in Slots
<1>1. ASSUME NEW n \in Int, NEW d \in Nat \ {0} PROVE n % d \in 0 .. d - 1
  BY <1>1
<1>. QED
  BY <1>1, ChannelAssumption DEF Slots, Slot

LEMMA InitInv == Init => ChannelInv
<1>. SUFFICES ASSUME Init PROVE ChannelInv
  OBVIOUS
<1>. USE DEF Init, ClientIdle, ServerIdle, EmptyReq, EmptyResp, ReqHeap!Init
<1>1. Types
  BY SlotRange, ChannelAssumption
     DEF Types, ClientState, ServerState, Request, Response, Message
<1>2. ElementsInv
  BY DEF ElementsInv, Inside
<1>3. RequestsInv
  BY DEF RequestsInv, HasBlock, Linked, Filled, NoDuplicates
<1>. QED
  BY <1>1, <1>2, <1>3 DEF ChannelInv

(* A client begins a call.                                                 *)
LEMMA BeginInv ==
  ASSUME ChannelInv, NEW c \in Clients, Begin(c)
  PROVE  ChannelInv'
<1>. USE DEF ChannelInv, At, heaps, processes
<1>1. /\ client[c].pc = "idle"
      /\ calls' = [calls EXCEPT ![c] = @ + 1]
      /\ client' = [client EXCEPT ![c].pc = "claim", ![c].slot = Slot(counter)]
      /\ UNCHANGED <<counter, req, resp, memory, live, respUsed, server, alive, restarts>>
  BY DEF Begin
<1>2. Slot(counter) \in Slots
  <2>1. counter \in Int
    BY ChannelAssumption DEF Types, Slots
  <2>. QED
    BY <2>1, SlotRange
<1>3. Types'
  <2>1. client' \in [Clients -> ClientState]
    BY <1>1, <1>2 DEF Types, ClientState
  <2>2. calls' \in [Clients -> Nat]
    BY <1>1 DEF Types
  <2>. QED
    BY <1>1, <2>1, <2>2 DEF Types
<1>4. \A d \in Clients \ {c} : client'[d] = client[d] /\ Current(d)' = Current(d)
  BY <1>1 DEF Types, Current
<1>5. client[c].pc = "idle" /\ client'[c].pc = "claim"
  BY <1>1 DEF Types, ClientState
<1>6. \A d \in Clients :
        /\ Inside(d)' <=> Inside(d)
        /\ HasBlock(d)' <=> HasBlock(d)
        /\ Linked(d)' <=> Linked(d)
        /\ Filled(d)' <=> Filled(d)
        /\ (HasBlock(d) => Inside(d)) /\ (Linked(d) => Inside(d)) /\ (Filled(d) => Inside(d))
  BY <1>4, <1>5 DEF Inside, HasBlock, Linked, Filled
<1>7. \A d \in Clients : Inside(d) =>
        /\ client'[d].slot = client[d].slot /\ client'[d].block = client[d].block
        /\ Current(d)' = Current(d)
  BY <1>4, <1>5 DEF Inside
<1>8. ElementsInv'
  <2>1. UNCHANGED req
    BY <1>1
  <2>. QED
    BY <2>1, <1>6, <1>7 DEF ElementsInv
<1>9. UNCHANGED <<req, memory>>
      /\ NoDuplicates(live)' /\ \A b \in ReqBlocks : Listed(b, live)' <=> Listed(b, live)
  BY <1>1 DEF NoDuplicates, Listed, RequestsInv
<1>10. RequestsInv'
  BY <1>6, <1>7, <1>9 DEF RequestsInv
<1>. QED
  BY <1>3, <1>8, <1>10

(* A client claims an element that is empty, or is refused.                *)
LEMMA ClaimInv ==
  ASSUME ChannelInv, NEW c \in Clients, Claim(c)
  PROVE  ChannelInv'
<1>. USE DEF ChannelInv, At, heaps, processes
<1>. DEFINE q == client[c].slot
<1>1. client[c].pc = "claim" /\ q \in Slots
      /\ UNCHANGED <<resp, memory, live, respUsed, server, calls, alive, restarts>>
  BY DEF Claim, Types, ClientState
<1>2. CASE /\ req[q].empty
           /\ counter' = Slot(counter + 1)
           /\ req' = [req EXCEPT ![q].empty = FALSE]
           /\ client' = [client EXCEPT ![c].pc = "alloc"]
  <2>1. Slot(counter + 1) \in Slots
    <3>1. counter + 1 \in Int
      BY ChannelAssumption DEF Types, Slots
    <3>. QED
      BY <3>1, SlotRange
  <2>2. Types'
    <3>1. client' \in [Clients -> ClientState]
      BY <1>2 DEF Types, ClientState
    <3>2. req' \in [Slots -> Request]
      BY <1>1, <1>2, ZenonT(30) DEF Types, Request
    <3>. QED
      BY <1>1, <1>2, <2>1, <3>1, <3>2 DEF Types
  <2>3. \A d \in Clients : Inside(d) => client[d].slot # q
    BY <1>2 DEF ElementsInv
  <2>4. ElementsInv'
    BY <1>1, <1>2, <2>3 DEF Types, ClientState, Request, ElementsInv, Inside
  <2>5. RequestsInv'
    BY <1>1, <1>2 DEF Types, ClientState, Request, RequestsInv, HasBlock, Linked, Filled, Current
  <2>. QED
    BY <2>2, <2>4, <2>5
<1>3. CASE client' = [client EXCEPT ![c] = ClientIdle] /\ UNCHANGED <<counter, req>>
  <2>1. Types'
    BY <1>1, <1>3, SlotRange DEF Types, ClientState, ClientIdle
  <2>2. ElementsInv'
    BY <1>1, <1>3 DEF Types, ClientIdle, ElementsInv, Inside
  <2>3. RequestsInv'
    BY <1>1, <1>3 DEF Types, ClientIdle, RequestsInv, HasBlock, Linked, Filled, Current
  <2>. QED
    BY <2>1, <2>2, <2>3
<1>. QED
  BY <1>2, <1>3 DEF Claim, Goto, Return

(* A block that is not in use becomes the client's.                        *)
LEMMA AllocAndCopyInv ==
  ASSUME ChannelInv, NEW c \in Clients, AllocAndCopy(c)
  PROVE  ChannelInv'
<1>. USE DEF ChannelInv, At, heaps, processes
<1>1. PICK b \in ReqBlocks :
        /\ ReqHeap!Alloc(b)
        /\ memory' = [memory EXCEPT ![b] = Current(c)]
        /\ client' = [client EXCEPT ![c].pc = "handle", ![c].block = b]
  BY DEF AllocAndCopy
<1>2. client[c].pc = "alloc"
      /\ UNCHANGED <<counter, req, resp, respUsed, server, calls, alive, restarts>>
  BY DEF AllocAndCopy
<1>3. live' = Append(live, b) /\ ~ Listed(b, live)
  BY <1>1 DEF ReqHeap!Alloc, Same, Listed
<1>4. /\ live' \in Seq(ReqBlocks) /\ NoDuplicates(live)'
      /\ \A x : Listed(x, live)' <=> Listed(x, live) \/ x = b
  BY <1>3, AppendListed DEF Types, RequestsInv
<1>5. Current(c) \in Call
  BY DEF Current, Call, Types
<1>6. Types'
  BY <1>1, <1>2, <1>4, <1>5 DEF Types, ClientState
<1>7. ElementsInv'
  BY <1>1, <1>2 DEF Types, ClientState, ElementsInv, Inside
<1>8. \A d \in Clients : HasBlock(d) => client[d].block # b
  BY <1>3 DEF RequestsInv
<1>9. /\ \A d \in Clients \ {c} : client'[d] = client[d]
      /\ \A d \in Clients : Current(d)' = Current(d)
  BY <1>1, <1>2 DEF Types, Current
<1>10. client[c].pc = "alloc" /\ client'[c].pc = "handle" /\ client'[c].block = b
  BY <1>1, <1>2 DEF Types, ClientState
<1>11. memory'[b] = Current(c) /\ \A x \in ReqBlocks \ {b} : memory'[x] = memory[x]
  BY <1>1 DEF Types
<1>12. /\ HasBlock(c)' /\ ~ HasBlock(c) /\ ~ Linked(c)' /\ ~ Filled(c)' /\ ~ Filled(c)
       /\ \A d \in Clients \ {c} :
            /\ HasBlock(d)' <=> HasBlock(d)
            /\ Linked(d)' <=> Linked(d)
            /\ Filled(d)' <=> Filled(d)
  BY <1>9, <1>10 DEF HasBlock, Linked, Filled
<1>13. \A d \in Clients : HasBlock(d)' =>
         /\ client'[d].block \in ReqBlocks /\ Listed(client[d].block, live)'
         /\ memory'[client'[d].block] = Current(d)'
  <2>1. client'[c].block = b /\ Listed(b, live)' /\ memory'[b] = Current(c)'
    BY <1>4, <1>9, <1>10, <1>11
  <2>2. ASSUME NEW d \in Clients \ {c}, HasBlock(d)
        PROVE  /\ client'[d].block \in ReqBlocks \ {b}
               /\ Listed(client'[d].block, live')
               /\ memory'[client'[d].block] = Current(d)'
    <3>1. client'[d].block = client[d].block /\ client[d].block \in ReqBlocks \ {b}
          /\ Listed(client[d].block, live) /\ memory[client[d].block] = Current(d)
      BY <2>2, <1>8, <1>9 DEF RequestsInv
    <3>. QED
      BY <3>1, <1>4, <1>9, <1>11
  <2>. QED
    BY <2>1, <2>2, <1>12
<1>14. \A q \in Slots : req'[q].size # Nothing =>
         \E d \in Clients : Filled(d)' /\ client'[d].slot = q
  BY <1>2, <1>9, <1>12 DEF RequestsInv
<1>15. RequestsInv'
  BY <1>2, <1>4, <1>8, <1>9, <1>10, <1>12, <1>13, <1>14 DEF RequestsInv
<1>. QED
  BY <1>6, <1>7, <1>15

(* The element is left as if nobody had been there.                        *)
LEMMA AllocFailsInv ==
  ASSUME ChannelInv, NEW c \in Clients, AllocFails(c)
  PROVE  ChannelInv'
<1>. USE DEF ChannelInv, At, heaps, processes
<1>. DEFINE q == client[c].slot
<1>1. /\ client[c].pc = "alloc" /\ q \in Slots
      /\ req' = [req EXCEPT ![q] = EmptyReq]
      /\ client' = [client EXCEPT ![c] = ClientIdle]
      /\ UNCHANGED <<counter, resp, memory, live, respUsed, server, calls, alive, restarts>>
  BY DEF AllocFails, Return, Types, ClientState
<1>2. Types'
  BY <1>1, SlotRange DEF Types, ClientState, ClientIdle, Request, EmptyReq
<1>3. \A d \in Clients \ {c} : Inside(d) => client[d].slot # q
  BY <1>1 DEF ElementsInv, Inside
<1>4. ElementsInv'
  BY <1>1, <1>3 DEF Types, ClientIdle, EmptyReq, ElementsInv, Inside
<1>5. RequestsInv'
  BY <1>1, <1>3 DEF Types, ClientIdle, EmptyReq, RequestsInv, Inside, HasBlock, Linked, Filled, Current
<1>. QED
  BY <1>2, <1>4, <1>5

(* The request points to the client's block.                               *)
LEMMA StoreHandleInv ==
  ASSUME ChannelInv, NEW c \in Clients, StoreHandle(c)
  PROVE  ChannelInv'
<1>. USE DEF ChannelInv, At, heaps, processes
<1>. DEFINE q == client[c].slot
<1>1. /\ client[c].pc = "handle" /\ q \in Slots /\ client[c].block \in ReqBlocks
      /\ req' = [req EXCEPT ![q].address_handle = client[c].block]
      /\ client' = [client EXCEPT ![c].pc = "size"]
      /\ UNCHANGED <<counter, resp, memory, live, respUsed, server, calls, alive, restarts>>
  BY DEF StoreHandle, Goto, Types, ClientState, RequestsInv, HasBlock
<1>2. Types'
  BY <1>1, ZenonT(30) DEF Types, ClientState, Request
<1>3. \A d \in Clients \ {c} : Inside(d) => client[d].slot # q
  BY <1>1 DEF ElementsInv, Inside
<1>4. ElementsInv'
  BY <1>1 DEF Types, ClientState, Request, ElementsInv, Inside
<1>5. RequestsInv'
  <2>1. /\ \A d \in Clients :
             /\ client'[d].slot = client[d].slot /\ client'[d].block = client[d].block
             /\ HasBlock(d)' <=> HasBlock(d)
             /\ Linked(d)' <=> Linked(d) \/ d = c
             /\ Filled(d)' <=> Filled(d)
             /\ Linked(d) => Inside(d)
             /\ Current(d)' = Current(d)
    BY <1>1 DEF Types, ClientState, Inside, HasBlock, Linked, Filled, Current
  <2>2. /\ req'[q].address_handle = client[c].block
        /\ \A r \in Slots : req'[r].size = req[r].size
        /\ \A r \in Slots \ {q} : req'[r] = req[r]
    BY <1>1 DEF Types, Request
  <2>3. \A d \in Clients : client[d].slot \in Slots
    BY DEF Types, ClientState
  <2>4. \A d \in Clients : Linked(d)' => req'[client'[d].slot].address_handle = client'[d].block
    BY <1>3, <2>1, <2>2, <2>3 DEF RequestsInv
  <2>5. \A d \in Clients : Filled(d)' => req'[client'[d].slot].size \in {Current(d), Nothing}'
    BY <2>1, <2>2, <2>3 DEF RequestsInv
  <2>. QED
    BY <1>1, <2>1, <2>2, <2>4, <2>5 DEF RequestsInv, NoDuplicates, Listed
<1>. QED
  BY <1>2, <1>4, <1>5

(* The request is filled in.                                               *)
LEMMA StoreSizeInv ==
  ASSUME ChannelInv, NEW c \in Clients, StoreSize(c)
  PROVE  ChannelInv'
<1>. USE DEF ChannelInv, At, heaps, processes
<1>. DEFINE q == client[c].slot
<1>0. PICK size \in {Current(c), Nothing} : req' = [req EXCEPT ![q].size = size]
  BY Zenon DEF StoreSize
<1>1. /\ client[c].pc = "size" /\ q \in Slots
      /\ client' = [client EXCEPT ![c].pc = "recv"]
      /\ UNCHANGED <<counter, resp, memory, live, respUsed, server, calls, alive, restarts>>
  BY DEF StoreSize, Goto, Types, ClientState
<1>2. size \in Call \cup {Nothing}
  BY DEF Current, Call, Types
<1>3. Types'
  BY <1>0, <1>1, <1>2, ZenonT(30) DEF Types, ClientState, Request
<1>4. \A d \in Clients \ {c} : Inside(d) => client[d].slot # q
  BY <1>1 DEF ElementsInv, Inside
<1>5. ElementsInv'
  BY <1>0, <1>1 DEF Types, ClientState, Request, ElementsInv, Inside
<1>6. \A d \in Clients : Current(d)' = Current(d)
  BY <1>1 DEF Current
<1>7. RequestsInv'
  BY <1>0, <1>1, <1>4, <1>6
     DEF Types, ClientState, Request, RequestsInv, Inside, HasBlock, Linked, Filled
<1>. QED
  BY <1>3, <1>5, <1>7

(* A client waits where it is.                                             *)
LEMMA WaitInv ==
  ASSUME ChannelInv, NEW c \in Clients, Wait(c)
  PROVE  ChannelInv'
<1>. USE DEF ChannelInv, At, heaps, processes
<1>1. /\ client[c].pc = "recv"
      /\ client' = [client EXCEPT ![c].pc = "wait"]
      /\ UNCHANGED <<counter, req, resp, memory, live, respUsed, server, calls, alive, restarts>>
  BY DEF Wait, Goto
<1>2. Types'
  BY <1>1 DEF Types, ClientState
<1>3. ElementsInv'
  BY <1>1 DEF Types, ClientState, ElementsInv, Inside
<1>4. RequestsInv'
  BY <1>1 DEF Types, ClientState, RequestsInv, HasBlock, Linked, Filled, Current
<1>. QED
  BY <1>2, <1>3, <1>4

(* The client leaves; its block is freed or stays listed for ever.         *)
LEMMA ReceiveInv ==
  ASSUME ChannelInv, NEW c \in Clients, Receive(c)
  PROVE  ChannelInv'
<1>. USE DEF ChannelInv, At, heaps, processes
<1>. DEFINE q == client[c].slot
<1>1. /\ client[c].pc = "recv" /\ q \in Slots
      /\ req' = [req EXCEPT ![q] = EmptyReq]
      /\ resp' = [resp EXCEPT ![q] = EmptyResp]
      /\ client' = [client EXCEPT ![c] = ClientIdle]
      /\ UNCHANGED <<counter, memory, respUsed, server, calls, alive, restarts>>
  BY DEF Receive, Return, Types, ClientState
<1>2. req[q].address_handle = client[c].block
  BY <1>1 DEF RequestsInv, Linked
<1>3. /\ live' \in Seq(ReqBlocks) /\ NoDuplicates(live)'
      /\ \A b \in ReqBlocks : Listed(b, live) /\ b # client[c].block => Listed(b, live)'
  <2>1. CASE /\ req[q].size # Nothing /\ live # <<>>
             /\ req[q].address_handle = Head(live)
    <3>1. live # <<>> /\ live' = Tail(live) /\ Head(live) = client[c].block
      BY <2>1, <1>2 DEF Receive, ReqHeap!Free
    <3>. QED
      BY <3>1, TailListed DEF Types, RequestsInv
  <2>2. CASE UNCHANGED live
    BY <2>2 DEF Types, RequestsInv, NoDuplicates, Listed
  <2>. QED
    BY <2>1, <2>2 DEF Receive
<1>4. Types'
  <2>1. client' \in [Clients -> ClientState]
    BY <1>1, SlotRange DEF Types, ClientState, ClientIdle
  <2>2. req' \in [Slots -> Request]
    BY <1>1 DEF Types, Request, EmptyReq
  <2>3. resp' \in [Slots -> Response]
    BY <1>1 DEF Types, Response, EmptyResp, Message
  <2>. QED
    BY <1>1, <1>3, <2>1, <2>2, <2>3 DEF Types
<1>5. \A d \in Clients \ {c} : Inside(d) => client[d].slot # q
  BY <1>1 DEF ElementsInv, Inside
<1>6. ElementsInv'
  BY <1>1, <1>5 DEF Types, ClientIdle, EmptyReq, ElementsInv, Inside
<1>7. \A d \in Clients \ {c} : HasBlock(d) => client[d].block # client[c].block
  BY <1>1 DEF RequestsInv, HasBlock
<1>8. /\ \A d \in Clients \ {c} : client'[d] = client[d]
      /\ \A d \in Clients : Current(d)' = Current(d)
      /\ client'[c].pc = "idle"
      /\ req'[q].size = Nothing
      /\ \A r \in Slots \ {q} : req'[r] = req[r]
  BY <1>1 DEF Types, ClientIdle, EmptyReq, Current
<1>9. RequestsInv'
  BY <1>1, <1>3, <1>5, <1>7, <1>8 DEF RequestsInv, Inside, HasBlock, Linked, Filled
<1>. QED
  BY <1>4, <1>6, <1>9

(* The server touches no request; its answer may wake a client.            *)
LEMMA ServeInv ==
  ASSUME ChannelInv, Serve \/ Restart
  PROVE  ChannelInv'
<1>. USE DEF ChannelInv, heaps, processes
<1>1. UNCHANGED <<counter, req, memory, live, calls, alive>>
  BY DEF Serve, Poll, ReadHandle, ReadSize, Reply, ReplyError, Restart
<1>2. \/ UNCHANGED client
      \/ \E c \in Clients : /\ client[c].pc = "wait"
                            /\ client' = [client EXCEPT ![c].pc = "recv"]
  BY DEF Serve, Poll, ReadHandle, ReadSize, Reply, ReplyError, Restart, Signal, Goto
<1>3. /\ server.pos \in Slots /\ server.slot \in Slots /\ server.message \in Message
      /\ 0 \in Slots /\ Slot(server.pos + 1) \in Slots
  <2>1. server.pos \in Slots /\ server.pos + 1 \in Int
    BY ChannelAssumption DEF Types, ServerState, Slots
  <2>. QED
    BY <2>1, SlotRange DEF Types, ServerState
<1>4. server' \in ServerState
  <2>1. CASE Poll
    <3>1. CASE server' = ServerIdle(Slot(server.pos + 1))
      BY <3>1, <1>3 DEF ServerIdle, ServerState, Message
    <3>2. CASE server' = [server EXCEPT !.pc = "handle", !.slot = server.pos,
                                        !.pos = Slot(@ + 1)]
      BY <3>2, <1>3 DEF Types, ServerState
    <3>. QED
      BY <2>1, <3>1, <3>2 DEF Poll
  <2>2. CASE ReadHandle
    <3>1. req[server.slot].address_handle \in ReqBlocks \cup {NoBlock}
      BY <1>3 DEF Types, Request
    <3>. QED
      BY <2>2, <3>1 DEF ReadHandle, Types, ServerState
  <2>3. CASE ReadSize
    <3>1. req[server.slot].size \in Message /\ Garbage \in Message
      BY <1>3 DEF Types, Request, Message
    <3>2. PICK m \in Message :
            server' = [server EXCEPT !.pc = "reply", !.block = NoBlock, !.message = m]
      BY <2>3, <3>1 DEF ReadSize
    <3>. QED
      BY <3>2 DEF Types, ServerState
  <2>4. CASE Reply \/ ReplyError
    BY <2>4, <1>3 DEF Reply, ReplyError, ServerIdle, ServerState, Message
  <2>5. CASE Restart
    BY <2>5, <1>3 DEF Restart, ServerIdle, ServerState, Message
  <2>. QED
    BY <2>1, <2>2, <2>3, <2>4, <2>5 DEF Serve
<1>5. resp' \in [Slots -> Response]
  <2>1. ASSUME NEW m \in Message \cup {Error},
               resp' = [resp EXCEPT ![server.slot] = [empty |-> FALSE, message |-> m]]
        PROVE  resp' \in [Slots -> Response]
    BY <2>1 DEF Types, Response
  <2>. QED
    BY <1>3, <2>1 DEF Types, Serve, Poll, ReadHandle, ReadSize, Reply, ReplyError, Restart
<1>6. respUsed' \in 0 .. RespBlocks /\ restarts' \in 0 .. MaxRestarts
  BY ChannelAssumption
     DEF Types, Serve, Poll, ReadHandle, ReadSize, Reply, ReplyError, Restart
<1>7. client' \in [Clients -> ClientState]
      /\ \A c \in Clients :
           /\ client'[c].slot = client[c].slot /\ client'[c].block = client[c].block
           /\ Inside(c)' <=> Inside(c)
           /\ HasBlock(c)' <=> HasBlock(c)
           /\ Linked(c)' <=> Linked(c)
           /\ Filled(c)' <=> Filled(c)
  <2>1. CASE UNCHANGED client
    BY <2>1 DEF Types, Inside, HasBlock, Linked, Filled
  <2>2. ASSUME NEW d \in Clients, client[d].pc = "wait",
               client' = [client EXCEPT ![d].pc = "recv"]
        PROVE  /\ client' \in [Clients -> ClientState]
               /\ \A c \in Clients : /\ client'[c].slot = client[c].slot
                                     /\ client'[c].block = client[c].block
                                     /\ c # d => client'[c].pc = client[c].pc
               /\ client'[d].pc = "recv"
    BY <2>2 DEF Types, ClientState
  <2>. QED
    BY <1>2, <2>1, <2>2 DEF Inside, HasBlock, Linked, Filled
<1>8. Types'
  BY <1>1, <1>4, <1>5, <1>6, <1>7 DEF Types
<1>9. ElementsInv'
  BY <1>1, <1>7 DEF ElementsInv
<1>10. \A c \in Clients : Current(c)' = Current(c)
  BY <1>1 DEF Current
<1>11. RequestsInv'
  BY <1>1, <1>7, <1>10 DEF RequestsInv, NoDuplicates, Listed
<1>. QED
  BY <1>8, <1>9, <1>11

(* ChannelInv holds throughout, whoever dies.                              *)
THEOREM Invariance == Spec => []ChannelInv
<1>1. ChannelInv /\ [Next]_vars => ChannelInv'
  <2>. SUFFICES ASSUME ChannelInv, [Next]_vars PROVE ChannelInv'
    OBVIOUS
  <2>1. ASSUME NEW c \in Clients, Begin(c) \/ Lock(c) \/ Send(c) PROVE ChannelInv'
    BY <2>1, BeginInv, ClaimInv, WaitInv, ReceiveInv, AllocAndCopyInv, AllocFailsInv,
       StoreHandleInv, StoreSizeInv DEF Lock, Send
  <2>2. CASE Serve \/ Restart
    BY <2>2, ServeInv
  <2>3. ASSUME alive' \subseteq alive,
               UNCHANGED <<counter, req, resp, heaps, client, server, calls, restarts>>
        PROVE  ChannelInv'
    BY <2>3 DEF heaps, ChannelInv, Types, ElementsInv, Inside, RequestsInv,
                HasBlock, Linked, Filled, Current
  <2>4. CASE \E c \in MayCrash : Crash(c)
    BY <2>3, <2>4 DEF Crash
  <2>5. CASE UNCHANGED vars
    BY <2>3, <2>5 DEF vars, processes
  <2>. QED
    BY <2>1, <2>2, <2>4, <2>5 DEF Next
<1>. QED
  BY InitInv, <1>1, PTL DEF Spec

-----------------------------------------------------------------------------
(* The properties *)

(* The variables have their types. *)
THEOREM TypeCorrect == Spec => []TypeOK
<1>1. ChannelInv => TypeOK
  BY DEF ChannelInv, Types, TypeOK, ClientState, ServerState, Request, Response
<1>. QED
  BY <1>1, Invariance, PTL

(* An element belongs to exactly one client from the claim to the response *)
(* and is empty otherwise.                                                 *)
THEOREM ElementsClaimedByOne == Spec => []ClaimedByOne
<1>1. ChannelInv => ClaimedByOne
  <2>. SUFFICES ASSUME ChannelInv, NEW q \in Slots
                PROVE  Cardinality(Claimants(q)) = IF req[q].empty THEN 0 ELSE 1
    BY DEF ClaimedByOne
  <2>1. CASE req[q].empty
    <3>1. Claimants(q) = {}
      BY <2>1 DEF ChannelInv, ElementsInv, Inside, Claimants
    <3>. QED
      BY <2>1, <3>1, FS_EmptySet
  <2>2. CASE ~ req[q].empty
    <3>1. PICK c \in Clients : Inside(c) /\ client[c].slot = q
      BY <2>2 DEF ChannelInv, ElementsInv
    <3>2. Claimants(q) = {c}
      BY <3>1 DEF ChannelInv, ElementsInv, Inside, Claimants
    <3>. QED
      BY <2>2, <3>2, FS_Singleton
  <2>. QED
    BY <2>1, <2>2
<1>. QED
  BY <1>1, Invariance, PTL

(* A request that is filled in is that of the client in the element, and   *)
(* its block is in use and holds the client's message.                     *)
THEOREM RequestsStayIntact == Spec => []RequestIntact
<1>1. ChannelInv => RequestIntact
  <2>. SUFFICES ASSUME ChannelInv, NEW q \in Slots, req[q].size # Nothing
                PROVE  /\ \E c \in Claimants(q) : req[q].size = Current(c)
                       /\ \E i \in DOMAIN live : live[i] = req[q].address_handle
                       /\ memory[req[q].address_handle] = req[q].size
    BY DEF RequestIntact
  <2>1. PICK c \in Clients : Filled(c) /\ client[c].slot = q
    BY DEF ChannelInv, RequestsInv
  <2>2. Inside(c) /\ HasBlock(c) /\ Linked(c)
    BY <2>1 DEF Filled, Inside, HasBlock, Linked
  <2>. QED
    BY <2>1, <2>2 DEF ChannelInv, RequestsInv, Inside, Claimants, Listed
<1>. QED
  BY <1>1, Invariance, PTL

=============================================================================
