--------------------------- MODULE NetServerProofs ---------------------------
(* What the application sees of its sessions, for any number of connections,  *)
(* bytes and calls of Close: NetServer on its transport implements            *)
(* SessionEvents.                                                             *)
EXTENDS NetServer, AsyncTcpServerProofs

(* How far the reports about the connections have come: GetNewSid has         *)
(* returned an id, ...                                                        *)
Named == {p \in Peers :
    \/ rd[p] # "none"
    \/ \E c \in Chains : accPc[c] \in {"connected", "begin"} /\ accPeer[c] = p}

(* ... the connection is in the dictionary, ...                               *)
Registered == {p \in Peers :
    \/ rd[p] \notin {"none", "closed"}
    \/ \E c \in Chains : /\ accPeer[c] = p
                         /\ \/ accPc[c] = "begin"
                            \/ accPc[c] = "connected" /\ p \in half}

(* ... its Connect event has been enqueued, ...                               *)
Announced == {p \in Peers :
    rd[p] # "none" \/ \E c \in Chains : accPc[c] = "begin" /\ accPeer[c] = p}

(* ... and its Disconnect event.                                              *)
Ended == {p \in Peers : rd[p] = "closed" \/ (rd[p] = "gone" /\ p \in half)}

-----------------------------------------------------------------------------
(* The parts of the invariant.                                                *)

(* NetServer starts its transport once, so there is one accept chain.         *)
TransportInv == DatagramInv /\ SidInv /\ starts <= 1

(* A connection has an id from GetNewSid on, and bytes once it is announced.  *)
(* No read completes with an empty buffer.                                    *)
NamedInv ==
    /\ \A p \in Peers : sid[p] # 0 <=> p \in Named
    /\ \A p \in Peers \ Announced : got[p] = 0
    /\ \A p \in Peers : rd[p] \in {"completed", "datagram"} =>
                            buf[p].from <= buf[p].upto

(* Between its two lock sections a callback is still running.                 *)
HalfInv ==
    \A p \in half : \/ rd[p] = "gone"
                    \/ \E c \in Chains : /\ accPc[c] = "connected"
                                         /\ accPeer[c] = p

(* The dictionary has the registered connections under their ids.             *)
DictionaryInv ==
    /\ \A s \in Sids : clients[s] # NoPeer =>
           clients[s] \in Registered /\ sid[clients[s]] = s
    /\ \A p \in Registered : clients[sid[p]] = p

(* Events are about announced sessions, and so is what was handed over.       *)
IsAbout(s) == \E p \in Announced : sid[p] = s

AboutInv ==
    /\ \A i \in DOMAIN dataQueue :
           dataQueue[i].sid \in Sids /\ IsAbout(dataQueue[i].sid)
    /\ \A s \in Sids : /\ stage[s] # "unseen" => IsAbout(s)
                       /\ stage[s] = "unseen" => upto[s] = 0

(* The events of a session wait in the order of SessionEvents: a Connect      *)
(* first, and only for an unseen session; ...                                 *)
Connects(i) == dataQueue[i].type = "Connect"
Carries(i) == dataQueue[i].type = "Data"
Disconnects(i) == dataQueue[i].type = "Disconnect"
Before(j, i) == j < i /\ dataQueue[j].sid = dataQueue[i].sid

OpenInv ==
    /\ \A i \in DOMAIN dataQueue :
         /\ Connects(i) \/ Carries(i) \/ Disconnects(i)
         /\ Connects(i) =>
              /\ stage[dataQueue[i].sid] = "unseen"
              /\ dataQueue[i].from = 1 /\ dataQueue[i].upto = 0
              /\ \A j \in DOMAIN dataQueue : ~Before(j, i)
         /\ ~Connects(i) =>
              \/ stage[dataQueue[i].sid] = "open"
              \/ \E j \in DOMAIN dataQueue : Before(j, i) /\ Connects(j)
    /\ \A p \in Announced :
         stage[sid[p]] # "unseen" \/ Queued("Connect", sid[p])

(* ... a Disconnect last, and nothing for a closed session; ...               *)
CloseInv ==
    /\ \A i \in DOMAIN dataQueue :
         /\ stage[dataQueue[i].sid] # "closed"
         /\ Disconnects(i) => dataQueue[i].from = 1 /\ dataQueue[i].upto = 0
         /\ \A j \in DOMAIN dataQueue : Before(j, i) => ~Disconnects(j)
    /\ \A p \in Announced :
         p \in Ended <=> \/ stage[sid[p]] = "closed"
                         \/ Queued("Disconnect", sid[p])

(* ... and the bytes in between in order, from the last one handed over to    *)
(* the last one the transport's callback was given.                           *)
BytesInv ==
    /\ \A i \in DOMAIN dataQueue : Carries(i) =>
         /\ upto[dataQueue[i].sid] < dataQueue[i].from
         /\ dataQueue[i].from <= dataQueue[i].upto
         /\ \A j \in DOMAIN dataQueue : Before(j, i) /\ Carries(j) =>
              dataQueue[j].upto < dataQueue[i].from
         /\ \/ dataQueue[i].from = upto[dataQueue[i].sid] + 1
            \/ \E j \in DOMAIN dataQueue :
                 /\ Before(j, i) /\ Carries(j)
                 /\ dataQueue[i].from = dataQueue[j].upto + 1
    /\ \A p \in Announced :
         /\ upto[sid[p]] <= got[p]
         /\ \A i \in DOMAIN dataQueue :
              Carries(i) /\ dataQueue[i].sid = sid[p] =>
                  dataQueue[i].upto <= got[p]
         /\ \/ got[p] = upto[sid[p]]
            \/ \E i \in DOMAIN dataQueue :
                 /\ Carries(i) /\ dataQueue[i].sid = sid[p]
                 /\ dataQueue[i].upto = got[p]

QueueInv == AboutInv /\ OpenInv /\ CloseInv /\ BytesInv

(* The list is behind by the event Tick is handing over.                      *)
Moving(s) == /\ mainPc = "callback"
             /\ evt.sid = s
             /\ evt.type \in {"Connect", "Disconnect"}

ListInv ==
    /\ mainPc \in {"callback", "reply"} => evt.sid \in Sids
    /\ mainPc \notin {"callback", "reply"} => evt = NoEvent
    /\ mainPc = "callback" =>
         /\ evt.type = "Connect" => stage[evt.sid] = "open"
         /\ evt.type = "Disconnect" => stage[evt.sid] = "closed"
    /\ \A s \in Sids : list[s] = IF Moving(s) THEN IF stage[s] = "open" THEN 0
                                                                        ELSE 1
                                 ELSE IF stage[s] = "open" THEN 1 ELSE 0

(* Close goes through sessions of the dictionary.                             *)
ToCloseInv ==
    /\ toClose # {} => mainPc = "close"
    /\ \A s \in toClose : clients[s] # NoPeer

(* The inductive invariant.                                                   *)
ServerInv ==
    /\ ServerTypeOK /\ TransportInv /\ NamedInv /\ HalfInv /\ DictionaryInv
    /\ QueueInv /\ ListInv /\ ToCloseInv

-----------------------------------------------------------------------------
(* No connection exists and the queue is empty.                               *)
LEMMA InitServer == ServerInit => ServerInv
<1> SUFFICES ASSUME ServerInit PROVE ServerInv
    OBVIOUS
<1> USE TransportAssumption, NetServerAssumption
<1>1. Init
    BY DEF ServerInit
<1>2. TransportInv /\ TypeOK
    BY <1>1, InitDatagram, InitSid DEF TransportInv, Init, SidInv
<1>3. NoEvent \in Events
    BY DEF NoEvent, Event, Events
<1>4. ServerTypeOK
    BY <1>2, <1>3 DEF ServerInit, ServerTypeOK, Sids
<1>5. Named = {} /\ Announced = {} /\ Registered = {}
    BY <1>1 DEF Init, Named, Announced, Registered
<1>6. NamedInv /\ HalfInv /\ DictionaryInv
    BY <1>1, <1>5 DEF Init, ServerInit, NamedInv, HalfInv, DictionaryInv
<1>7. QueueInv
    BY <1>5 DEF ServerInit, QueueInv, AboutInv, OpenInv, CloseInv, BytesInv
<1>8. ListInv /\ ToCloseInv
    BY DEF ServerInit, ListInv, ToCloseInv, Moving
<1>. QED
    BY <1>2, <1>4, <1>6, <1>7, <1>8 DEF ServerInv

-----------------------------------------------------------------------------
(* The transport under NetServer.                                             *)

(* What the dictionary has is known to the transport's owner.                 *)
LEMMA DictionaryKnown ==
    ASSUME ServerInv, NEW s \in Sids, clients[s] # NoPeer
    PROVE  clients[s] \in Peers /\ Known(clients[s])
<1>1. clients[s] \in Registered
    BY DEF ServerInv, DictionaryInv
<1>. QED
    BY <1>1 DEF Registered, Known

(* Every step of the server is one of the transport, or leaves it alone; only *)
(* Start begins an accept chain.                                              *)
LEMMA ServerStepsTransport ==
    ASSUME ServerInv, ServerNext
    PROVE  [Next]_tvars /\ starts' <= 1
<1> USE DEF ServerInv
<1>1. starts <= 1 /\ starts \in Nat
    BY DEF TransportInv, SidInv, TypeOK
<1>2. CASE NetServerStart
    <2>1. Start /\ starts = 0
        BY <1>2 DEF NetServerStart
    <2>2. starts' <= 1
        BY <2>1 DEF Start
    <2>. QED
        BY <2>1, <2>2 DEF Next, OwnerStep
<1>3. CASE TransportStep
    <2>1. Next
        BY <1>3 DEF TransportStep, Next
    <2>2. UNCHANGED starts
        BY <1>3 DEF TransportStep, AcceptStep, PeerStep, ReadStep,
           AcceptCompletes, EndAccept, EndAborted, GetNewSidRead,
           GetNewSidWrite, GetNewSidReturn, BeginFirstRead, BeginNextAccept,
           PeerConnect, PeerSend, PeerClose, PeerReset, ReadCompletes, ReadEnds,
           HandleDatagramReceived, BeginNextRead, server
    <2>. QED
        BY <1>1, <2>1, <2>2
<1>4. CASE PoolStep
    <2>1. \/ UNCHANGED tvars
          \/ \E c \in Chains : OnClientConnected(c)
          \/ \E p \in Peers : OnDatagramReceived(p) \/ OnClientDisconnected(p)
        BY <1>4 DEF PoolStep, MT_OnClientConnected_Clients,
           MT_OnClientConnected_Queue, MT_OnClientDisconnected_Queue,
           MT_OnClientDisconnected_Clients, MT_OnDatagramReceived
    <2>2. UNCHANGED starts
        BY <2>1 DEF tvars, OnClientConnected, OnDatagramReceived,
           OnClientDisconnected, server
    <2>. QED
        BY <1>1, <2>1, <2>2 DEF Next, CallbackStep
<1>5. ASSUME NEW s \in Sids, clients[s] # NoPeer, Disconnect(clients[s])
      PROVE  [Next]_tvars /\ starts' <= 1
    <2>1. clients[s] \in Peers /\ Known(clients[s])
        BY <1>5, DictionaryKnown
    <2>2. UNCHANGED starts
        BY <1>5 DEF Disconnect, server
    <2>. QED
        BY <1>1, <1>5, <2>1, <2>2 DEF Next, OwnerStep
<1>6. CASE MainStep /\ ~NetServerStart
    <2>1. \/ UNCHANGED tvars
          \/ \E s \in Sids : clients[s] # NoPeer /\ Disconnect(clients[s])
        BY <1>6 DEF MainStep, TickStep, CloseStep, TickBegin, TickDequeue,
           TickEnd, AppConnected, AppDisconnected, AppData, AppReply, AppSend,
           AppDisconnect, SendTo, Send, CloseBegin, CloseNext, CloseEnd,
           ToCloseInv
    <2>2. UNCHANGED tvars => UNCHANGED starts
        BY DEF tvars
    <2>. QED
        BY <1>1, <1>5, <2>1, <2>2
<1>. QED
    BY <1>2, <1>3, <1>4, <1>6 DEF ServerNext

(* A step of the server keeps what holds of its transport.                    *)
LEMMA NextTransport ==
    ASSUME ServerInv, [ServerNext]_vars
    PROVE  TransportInv' /\ TypeOK'
<1>1. [Next]_tvars /\ starts' <= 1
    <2>1. CASE UNCHANGED vars
        BY <2>1 DEF vars, tvars, ServerInv, TransportInv
    <2>. QED
        BY <2>1, ServerStepsTransport
<1>. QED
    BY <1>1, NextDatagram, NextSid DEF ServerInv, TransportInv, SidInv


-----------------------------------------------------------------------------
(* Whose report is whose.                                                     *)

(* The reports of a connection follow each other.                             *)
LEMMA ReportsFollow ==
    /\ Registered \subseteq Named /\ Announced \subseteq Named
    /\ Ended \subseteq Announced /\ Named \subseteq Peers
BY DEF Named, Registered, Announced, Ended

(* A session id names one connection.                                         *)
LEMMA NamesAreUnique ==
    ASSUME ServerInv
    PROVE  /\ \A p \in Named : sid[p] \in Sids
           /\ \A p, q \in Named : sid[p] = sid[q] => p = q
<1>1. \A p \in Named : p \in Peers /\ sid[p] # 0
    BY ReportsFollow DEF ServerInv, NamedInv
<1>2. \A p \in Peers : sid[p] \in 0..MaxSid
    BY DEF ServerInv, ServerTypeOK, TypeOK
<1>3. UniqueSids /\ starts <= 1
    BY DEF ServerInv, TransportInv, SidInv
<1>. QED
    BY <1>1, <1>2, <1>3, TransportAssumption DEF UniqueSids, Sids

(* A running accept callback owns its connection alone; no read of it has     *)
(* been posted.                                                               *)
LEMMA CallbackOwns ==
    ASSUME ServerInv, NEW c \in Chains, accPc[c] \in OwnerPcs
    PROVE  /\ accPeer[c] \in Peers /\ rd[accPeer[c]] = "none"
           /\ \A d \in Chains : accPc[d] \in OwnerPcs /\ accPeer[d] = accPeer[c]
                                    => d = c
BY DEF ServerInv, TransportInv, DatagramInv, OwnInv, OwnedInv, OneOwnerInv

(* The queue's invariant depends on the connections only by what was reported *)
(* of them.                                                                   *)
LEMMA QueueFrame ==
    ASSUME ServerInv, UNCHANGED <<dataQueue, stage, upto, got>>,
           Announced' = Announced, Ended' = Ended,
           \A p \in Named : sid'[p] = sid[p]
    PROVE  QueueInv'
<1>1. \A p \in Announced : sid'[p] = sid[p]
    BY ReportsFollow
<1>2. AboutInv'
    BY <1>1 DEF ServerInv, QueueInv, AboutInv, IsAbout
<1>3. OpenInv'
    BY <1>1 DEF ServerInv, QueueInv, OpenInv, Connects, Carries, Disconnects,
                Before, Queued
<1>4. CloseInv'
    BY <1>1 DEF ServerInv, QueueInv, CloseInv, Disconnects, Before, Queued
<1>5. BytesInv'
    BY <1>1 DEF ServerInv, QueueInv, BytesInv, Carries, Before
<1>. QED
    BY <1>2, <1>3, <1>4, <1>5 DEF QueueInv

(* Steps that neither touch the dictionary nor report anything.               *)
LEMMA DictionaryFrame ==
    ASSUME ServerInv, UNCHANGED clients, Registered' = Registered,
           \A p \in Named : sid'[p] = sid[p]
    PROVE  DictionaryInv'
BY ReportsFollow DEF ServerInv, DictionaryInv

(* Nothing but sockets change and an accept chain may begin: the reports are  *)
(* the same.                                                                  *)
LEMMA ReportsFrame ==
    ASSUME ServerInv, UNCHANGED <<accPeer, rd, half, sid, got, buf>>,
           \A c \in Chains : accPc'[c] # accPc[c] =>
               accPc[c] = "none" /\ accPc'[c] = "pending"
    PROVE  /\ Named' = Named /\ Registered' = Registered
           /\ Announced' = Announced /\ Ended' = Ended
           /\ NamedInv' /\ HalfInv'
<1>1. /\ Named' = Named /\ Registered' = Registered
      /\ Announced' = Announced /\ Ended' = Ended
    BY DEF Named, Registered, Announced, Ended
<1>2. NamedInv' /\ HalfInv'
    BY <1>1 DEF ServerInv, NamedInv, HalfInv
<1>. QED
    BY <1>1, <1>2


-----------------------------------------------------------------------------
(* The transport's own steps report nothing.                                  *)
LEMMA AcceptReports ==
    ASSUME ServerInv, NEW c \in Chains, AcceptStep(c), UNCHANGED half
    PROVE  /\ Registered' = Registered /\ Announced' = Announced
           /\ Ended' = Ended /\ \A p \in Named : sid'[p] = sid[p]
           /\ got' = got /\ NamedInv' /\ HalfInv'
<1>1. TypeOK
    BY DEF ServerInv, ServerTypeOK
<1> USE DEF OwnerPcs, server, network, receive
<1>2. CASE GetNewSidReturn(c)
    <2> DEFINE p == accPeer[c]
    <2>1. /\ accPc[c] = "sidWritten" /\ accPc' = [accPc EXCEPT ![c] = "connected"]
          /\ sid' = [sid EXCEPT ![p] = lastSid]
          /\ UNCHANGED <<accPeer, rd, got, buf>>
        BY <1>2 DEF GetNewSidReturn
    <2>2. /\ p \in Peers /\ rd[p] = "none"
          /\ \A d \in Chains : accPc[d] \in OwnerPcs /\ accPeer[d] = p => d = c
        BY <2>1, CallbackOwns
    <2>3. p \notin Named
        BY <2>1, <2>2 DEF Named
    <2>4. lastSid # 0
        <3>1. sid[p] < lastSid
            BY <2>1, <2>2 DEF ServerInv, TransportInv, SidInv, FreshInv
        <3>. QED
            BY <1>1, <2>2, <3>1 DEF TypeOK
    <2>5. p \notin half
        BY <2>1, <2>2 DEF ServerInv, HalfInv
    <2>6. Named' = Named \cup {p}
        BY <1>1, <2>1, <2>2 DEF Named, TypeOK
    <2>7. Registered' = Registered /\ Announced' = Announced /\ Ended' = Ended
        BY <1>1, <2>1, <2>5 DEF Registered, Announced, Ended, TypeOK
    <2>8. \A q \in Peers : sid'[q] = IF q = p THEN lastSid ELSE sid[q]
        BY <1>1, <2>1 DEF TypeOK
    <2>9. NamedInv'
        BY <2>1, <2>2, <2>4, <2>6, <2>7, <2>8 DEF ServerInv, NamedInv
    <2>10. HalfInv'
        BY <1>1, <2>1 DEF ServerInv, HalfInv, TypeOK
    <2>. QED
        BY <2>1, <2>3, <2>7, <2>8, <2>9, <2>10, ReportsFollow
<1>3. CASE BeginFirstRead(c)
    <2> DEFINE p == accPeer[c]
    <2>1. PICK w \in {"posted", "lost"}, n \in {"repost", "dead"} :
            /\ accPc[c] = "begin" /\ accPc' = [accPc EXCEPT ![c] = n]
            /\ rd' = [rd EXCEPT ![p] = w]
            /\ UNCHANGED <<accPeer, sid, got, buf>>
        BY <1>3 DEF BeginFirstRead
    <2>2. /\ p \in Peers /\ rd[p] = "none"
          /\ \A d \in Chains : accPc[d] \in OwnerPcs /\ accPeer[d] = p => d = c
        BY <2>1, CallbackOwns
    <2>3. \A q \in Peers : rd'[q] = IF q = p THEN w ELSE rd[q]
        BY <1>1, <2>1 DEF TypeOK
    <2>4. \A d \in Chains : accPc'[d] = IF d = c THEN n ELSE accPc[d]
        BY <1>1, <2>1 DEF TypeOK
    <2>5. Named' = Named /\ Announced' = Announced /\ Ended' = Ended
        BY <2>1, <2>2, <2>3, <2>4 DEF Named, Announced, Ended
    <2>6. Registered' = Registered
        BY <2>1, <2>2, <2>3, <2>4 DEF Registered
    <2>7. NamedInv'
        BY <2>1, <2>3, <2>5 DEF ServerInv, NamedInv
    <2>8. HalfInv'
        BY <2>1, <2>2, <2>3, <2>4 DEF ServerInv, HalfInv, ServerTypeOK
    <2>. QED
        BY <2>1, <2>5, <2>6, <2>7, <2>8
<1>4. CASE ~GetNewSidReturn(c) /\ ~BeginFirstRead(c)
    <2>1. UNCHANGED <<rd, sid, got, buf>>
        BY <1>4 DEF AcceptStep, AcceptCompletes, EndAccept, EndAborted,
                    GetNewSidRead, GetNewSidWrite, BeginNextAccept
    <2>2. /\ accPc[c] \notin {"connected", "begin"}
          /\ accPc'[c] \notin {"connected", "begin"}
          /\ \A d \in Chains : d # c => /\ accPc'[d] = accPc[d]
                                        /\ accPeer'[d] = accPeer[d]
        BY <1>1, <1>4 DEF AcceptStep, AcceptCompletes, EndAccept, EndAborted,
                    GetNewSidRead, GetNewSidWrite, BeginNextAccept, TypeOK
    <2>3. /\ Named' = Named /\ Registered' = Registered
          /\ Announced' = Announced /\ Ended' = Ended
        BY <2>1, <2>2 DEF Named, Registered, Announced, Ended
    <2>4. NamedInv' /\ HalfInv'
        BY <2>1, <2>2, <2>3 DEF ServerInv, NamedInv, HalfInv
    <2>. QED
        BY <2>1, <2>3, <2>4
<1>. QED
    BY <1>2, <1>3, <1>4

(* Peers and read chains report nothing by themselves.                        *)
LEMMA PeerReports ==
    ASSUME ServerInv, NEW p \in Peers, PeerStep(p) \/ ReadStep(p),
           UNCHANGED half
    PROVE  /\ Registered' = Registered /\ Announced' = Announced
           /\ Ended' = Ended /\ \A q \in Named : sid'[q] = sid[q]
           /\ got' = got /\ NamedInv' /\ HalfInv'
<1>1. TypeOK
    BY DEF ServerInv, ServerTypeOK
<1> USE DEF server, accept, network, receive
<1>2. CASE PeerStep(p)
    <2>1. UNCHANGED <<accPc, accPeer, rd, half, sid, got, buf>>
        BY <1>2 DEF PeerStep, PeerConnect, PeerSend, PeerClose, PeerReset
    <2>. QED
        BY <2>1, ReportsFrame
<1>3. CASE ReadStep(p)
    <2>1. /\ UNCHANGED <<accPc, accPeer, sid, got>>
          /\ \A q \in Peers : q # p => rd'[q] = rd[q] /\ buf'[q] = buf[q]
          /\ rd[p] \notin {"none", "gone", "closed"}
          /\ rd'[p] \notin {"none", "closed"}
        BY <1>1, <1>3 DEF ReadStep, ReadCompletes, ReadEnds,
           HandleDatagramReceived, BeginNextRead, TypeOK
    <2>2. \A c \in Chains : accPc[c] \in {"connected", "begin"} => accPeer[c] # p
        BY <2>1, CallbackOwns DEF OwnerPcs
    <2>3. p \notin half
        BY <2>1, <2>2 DEF ServerInv, HalfInv
    <2>4. /\ Named' = Named /\ Registered' = Registered
          /\ Announced' = Announced /\ Ended' = Ended
        BY <2>1, <2>3 DEF Named, Registered, Announced, Ended
    <2>5. rd'[p] \in {"completed", "datagram"} => buf'[p].from <= buf'[p].upto
        <3>1. CASE ReadCompletes(p)
            <4>1. PICK n \in 1..BufLen :
                    buf' = [buf EXCEPT ![p] = [from |-> taken[p] + 1,
                                               upto |-> taken[p] + n]]
                BY <3>1 DEF ReadCompletes
            <4>. QED
                BY <1>1, <4>1 DEF TypeOK
        <3>2. CASE ~ReadCompletes(p)
            <4>1. /\ buf' = buf
                  /\ rd'[p] \in {"completed", "datagram"} => rd[p] = "completed"
                BY <1>1, <1>3, <3>2 DEF ReadStep, ReadEnds,
                   HandleDatagramReceived, BeginNextRead, TypeOK
            <4>. QED
                BY <4>1 DEF ServerInv, NamedInv
        <3>. QED
            BY <3>1, <3>2
    <2>6. NamedInv'
        BY <2>1, <2>4, <2>5 DEF ServerInv, NamedInv
    <2>7. HalfInv'
        BY <2>1, <2>3 DEF ServerInv, HalfInv, ServerTypeOK
    <2>. QED
        BY <2>1, <2>4, <2>6, <2>7
<1>. QED
    BY <1>2, <1>3


(* A step of the transport.                                                   *)
LEMMA TransportServer ==
    ASSUME ServerInv, TransportStep
    PROVE  ServerInv'
<1>1. /\ UNCHANGED <<dataQueue, clients, half, mainPc, evt, toClose, closes,
                     list, stage, upto>>
    BY DEF TransportStep, app
<1>2. /\ Registered' = Registered /\ Announced' = Announced
      /\ Ended' = Ended /\ \A p \in Named : sid'[p] = sid[p]
      /\ got' = got /\ NamedInv' /\ HalfInv'
    BY <1>1, AcceptReports, PeerReports DEF TransportStep
<1>3. TransportInv' /\ TypeOK'
    BY NextTransport DEF ServerNext
<1>4. ServerTypeOK'
    BY <1>1, <1>3 DEF ServerInv, ServerTypeOK
<1>5. QueueInv' /\ DictionaryInv'
    BY <1>1, <1>2, QueueFrame, DictionaryFrame
<1>6. ListInv' /\ ToCloseInv'
    BY <1>1 DEF ServerInv, ListInv, ToCloseInv, Moving
<1>. QED
    BY <1>2, <1>3, <1>4, <1>5, <1>6 DEF ServerInv

-----------------------------------------------------------------------------
(* The application thread between two events.                                 *)


(* What it does to sockets and its own variables reports nothing.             *)
LEMMA MainFrame ==
    ASSUME ServerInv, ServerNext,
           UNCHANGED <<accPeer, rd, half, sid, got, buf, dataQueue, clients,
                       stage, upto>>,
           \A c \in Chains : accPc'[c] # accPc[c] =>
               accPc[c] = "none" /\ accPc'[c] = "pending",
           mainPc' \in {"idle", "tick", "callback", "reply", "close"},
           evt' \in Events, toClose' \in SUBSET Sids, closes' \in 0..MaxCloses,
           list' \in [Sids -> Nat], ListInv', ToCloseInv'
    PROVE  ServerInv'
<1>1. TransportInv' /\ TypeOK'
    BY NextTransport
<1>2. ServerTypeOK'
    BY <1>1 DEF ServerInv, ServerTypeOK
<1>3. /\ Registered' = Registered /\ Announced' = Announced
      /\ Ended' = Ended /\ NamedInv' /\ HalfInv'
    BY ReportsFrame
<1>4. QueueInv' /\ DictionaryInv'
    BY <1>3, QueueFrame, DictionaryFrame
<1>. QED
    BY <1>1, <1>2, <1>3, <1>4 DEF ServerInv

(* An event that is not being handed over is none.                            *)
LEMMA EventTypes == NoEvent \in Events /\ NoEvent.type = "None"
BY TransportAssumption DEF NoEvent, Event, Events

(* Start begins the only chain of accepts.                                    *)
LEMMA StartServer ==
    ASSUME ServerInv, NetServerStart
    PROVE  ServerInv'
<1>1. /\ UNCHANGED <<dataQueue, clients, half, mainPc, evt, toClose, closes,
                     list, stage, upto>>
      /\ Start /\ starts = 0
    BY DEF NetServerStart, app
<1>2. \A c \in Chains : accPc[c] = "none"
    BY <1>1 DEF ServerInv, TransportInv, SidInv, ChainInv, Chains
<1>3. /\ UNCHANGED <<accPeer, rd, sid, got, buf>>
      /\ accPc' = accPc \/ accPc' = [accPc EXCEPT ![1] = "pending"]
    BY <1>1 DEF Start, receive
<1>4. \A c \in Chains : accPc'[c] # accPc[c] =>
          accPc[c] = "none" /\ accPc'[c] = "pending"
    BY <1>2, <1>3 DEF ServerInv, ServerTypeOK, TypeOK
<1>5. ListInv' /\ ToCloseInv'
    BY <1>1 DEF ServerInv, ListInv, ToCloseInv, Moving
<1>6. ServerNext
    BY DEF ServerNext, MainStep
<1>. QED
    BY <1>1, <1>3, <1>4, <1>5, <1>6, MainFrame DEF ServerInv, ServerTypeOK

(* Disconnect and Send change at most a socket.                               *)
LEMMA SessionCalls ==
    ASSUME NEW s, \/ Disconnect(clients[s]) \/ SendTo(s) \/ UNCHANGED tvars
    PROVE  UNCHANGED <<accPc, accPeer, rd, sid, got, buf>>
BY DEF Disconnect, SendTo, Send, tvars, accept, receive

(* The application's own callbacks: the list follows the events.              *)
LEMMA CallbackServer ==
    ASSUME ServerInv, AppConnected \/ AppDisconnected \/ AppData \/ AppReply
    PROVE  ServerInv'
<1> USE EventTypes DEF ServerInv, ServerTypeOK
<1>1. /\ UNCHANGED <<half, dataQueue, clients, toClose, closes, stage, upto>>
      /\ UNCHANGED <<accPc, accPeer, rd, sid, got, buf>>
    BY SessionCalls DEF AppConnected, AppDisconnected, AppData, AppReply, tvars
<1>2. /\ mainPc \in {"callback", "reply"} /\ evt.sid \in Sids
      /\ toClose = {}
    BY DEF AppConnected, AppDisconnected, AppData, AppReply, ListInv, ToCloseInv
<1>3. /\ mainPc' \in {"idle", "tick", "reply"}
      /\ evt' \in Events
      /\ IF mainPc' = "reply" THEN evt' = evt ELSE evt' = NoEvent
    BY DEF AppConnected, AppDisconnected, AppData, AppReply
<1>4. \A s \in Sids : list'[s] = IF stage[s] = "open" THEN 1 ELSE 0
    <2>1. CASE AppConnected
        <3>1. list' = [list EXCEPT ![evt.sid] = list[evt.sid] + 1]
              /\ mainPc = "callback" /\ evt.type = "Connect"
            BY <2>1 DEF AppConnected
        <3>. QED
            BY <1>2, <3>1 DEF ListInv, Moving
    <2>2. CASE AppDisconnected
        <3>1. /\ list' = [list EXCEPT ![evt.sid] =
                              IF list[evt.sid] = 0 THEN 0
                                                   ELSE list[evt.sid] - 1]
              /\ mainPc = "callback" /\ evt.type = "Disconnect"
            BY <2>2 DEF AppDisconnected
        <3>. QED
            BY <1>2, <3>1 DEF ListInv, Moving
    <2>3. CASE AppData \/ AppReply
        <3>1. list' = list /\ \A s \in Sids : ~Moving(s)
            BY <2>3 DEF AppData, AppReply, Moving
        <3>. QED
            BY <3>1 DEF ListInv
    <2>. QED
        BY <2>1, <2>2, <2>3
<1>5. list' \in [Sids -> Nat]
    BY DEF AppConnected, AppDisconnected, AppData, AppReply
<1>6. ListInv' /\ ToCloseInv'
    BY <1>1, <1>2, <1>3, <1>4 DEF ListInv, ToCloseInv, Moving
<1>7. ServerNext
    BY DEF ServerNext, MainStep, TickStep
<1>. QED
    BY <1>1, <1>3, <1>5, <1>6, <1>7, MainFrame


(* Tick begins and ends, the calls between two Ticks, and Close.              *)
LEMMA IdleServer ==
    ASSUME ServerInv,
           \/ TickBegin \/ TickEnd \/ CloseBegin \/ CloseStep
           \/ \E s \in Sids : AppSend(s) \/ AppDisconnect(s)
    PROVE  ServerInv'
<1> USE DEF ServerInv, ServerTypeOK
<1>1. /\ UNCHANGED <<half, dataQueue, clients, evt, list, stage, upto>>
      /\ UNCHANGED <<accPc, accPeer, rd, sid, got, buf>>
    BY SessionCalls DEF TickBegin, TickEnd, AppSend, AppDisconnect, CloseBegin,
       CloseStep, CloseNext, CloseEnd, tvars, app
<1>2. /\ mainPc \in {"idle", "tick", "close"}
      /\ mainPc' \in {"idle", "tick", "close"}
    BY DEF TickBegin, TickEnd, AppSend, AppDisconnect, CloseBegin, CloseStep,
       CloseNext, CloseEnd, app
<1>3. ListInv'
    BY <1>1, <1>2 DEF ListInv, Moving
<1>4. closes' \in 0..MaxCloses
    BY NetServerAssumption DEF TickBegin, TickEnd, AppSend, AppDisconnect, CloseBegin, CloseStep,
       CloseNext, CloseEnd, app
<1>5. toClose' \in SUBSET Sids /\ ToCloseInv'
    <2>1. CASE \/ TickBegin \/ TickEnd
               \/ \E s \in Sids : AppSend(s) \/ AppDisconnect(s)
        BY <1>1, <2>1 DEF TickBegin, TickEnd, AppSend, AppDisconnect, app,
           ToCloseInv
    <2>2. CASE CloseBegin
        <3>1. toClose' = {s \in Sids : clients[s] # NoPeer} /\ mainPc' = "close"
            BY <2>2 DEF CloseBegin
        <3>. QED
            BY <1>1, <3>1 DEF ToCloseInv
    <2>3. CASE CloseStep
        BY <1>1, <2>3 DEF CloseStep, CloseNext, CloseEnd, ToCloseInv
    <2>. QED
        BY <2>1, <2>2, <2>3
<1>6. ServerNext
    BY DEF ServerNext, MainStep, TickStep
<1>. QED
    BY <1>1, <1>2, <1>3, <1>4, <1>5, <1>6, MainFrame


-----------------------------------------------------------------------------
(* Tick hands over the head of the queue.                                     *)

(* What is left of a queue without its head, and where it was before.         *)
LEMMA TailShifts ==
    ASSUME NEW S, NEW q \in Seq(S), q # <<>>
    PROVE  /\ Head(q) = q[1] /\ 1 \in DOMAIN q /\ q[1] \in S
           /\ DOMAIN q \subseteq Nat \ {0}
           /\ Tail(q) \in Seq(S)
           /\ \A i \in DOMAIN Tail(q) : i + 1 \in DOMAIN q /\ Tail(q)[i] = q[i + 1]
           /\ \A j \in DOMAIN q \ {1} : /\ j - 1 \in DOMAIN Tail(q)
                                        /\ Tail(q)[j - 1] = q[j]
OBVIOUS

(* What a step that hands over the event h does to the queue and to what the  *)
(* application was told.                                                      *)
HandsOver(h) ==
    /\ h = dataQueue[1] /\ 1 \in DOMAIN dataQueue /\ h.sid \in Sids
    /\ \A s \in Sids : stage'[s] =
          IF s # h.sid THEN stage[s]
          ELSE CASE h.type = "Connect" -> "open"
                 [] h.type = "Disconnect" -> "closed"
                 [] OTHER -> stage[s]
    /\ \A s \in Sids : upto'[s] =
          IF s = h.sid /\ h.type = "Data" THEN h.upto ELSE upto[s]
    /\ DOMAIN dataQueue \subseteq Nat \ {0}
    /\ \A i \in DOMAIN dataQueue' :
          /\ i \in Nat \ {0} /\ i + 1 \in DOMAIN dataQueue
          /\ dataQueue'[i] = dataQueue[i + 1]
    /\ \A j \in DOMAIN dataQueue \ {1} :
          j - 1 \in DOMAIN dataQueue' /\ dataQueue'[j - 1] = dataQueue[j]

(* TickDequeue is such a step.                                                *)
LEMMA DequeueHandsOver ==
    ASSUME ServerInv, TickDequeue
    PROVE  /\ HandsOver(Head(dataQueue)) /\ Head(dataQueue) \in Events
           /\ evt' = Head(dataQueue) /\ dataQueue' \in Seq(Events)
           /\ stage' \in [Sids -> {"unseen", "open", "closed"}]
           /\ upto' \in [Sids -> 0..MaxBytes]
<1> USE DEF ServerInv, ServerTypeOK
<1> DEFINE h == Head(dataQueue)
<1>1. dataQueue \in Seq(Events) /\ dataQueue # <<>> /\ dataQueue' = Tail(dataQueue)
    BY DEF TickDequeue
<1>2. h = dataQueue[1] /\ h \in Events /\ h.sid \in Sids
    BY <1>1, TailShifts DEF QueueInv, AboutInv
<1>3. /\ stage' = [stage EXCEPT ![h.sid] =
                     CASE h.type = "Connect" -> "open"
                       [] h.type = "Disconnect" -> "closed"
                       [] OTHER -> stage[h.sid]]
      /\ upto' = [upto EXCEPT ![h.sid] = IF h.type = "Data" THEN h.upto
                                                            ELSE upto[h.sid]]
      /\ evt' = h
    BY DEF TickDequeue
<1>4. h.upto \in 0..MaxBytes
    BY <1>2 DEF Events
<1> HIDE DEF h
<1>5. /\ stage' \in [Sids -> {"unseen", "open", "closed"}]
      /\ upto' \in [Sids -> 0..MaxBytes]
    BY <1>2, <1>3, <1>4
<1>6. /\ 1 \in DOMAIN dataQueue /\ DOMAIN dataQueue \subseteq Nat \ {0}
      /\ dataQueue' \in Seq(Events)
      /\ \A i \in DOMAIN dataQueue' :
            i + 1 \in DOMAIN dataQueue /\ dataQueue'[i] = dataQueue[i + 1]
      /\ \A j \in DOMAIN dataQueue \ {1} :
            j - 1 \in DOMAIN dataQueue' /\ dataQueue'[j - 1] = dataQueue[j]
    BY <1>1, TailShifts
<1>7. \A i \in DOMAIN dataQueue' : i \in Nat \ {0}
    BY <1>6
<1>8. HandsOver(h)
    BY <1>2, <1>3, <1>6, <1>7 DEF HandsOver
<1>. QED
    BY <1>2, <1>3, <1>5, <1>6, <1>8 DEF h


(* The head of the queue is the next event of its session.                    *)
LEMMA HeadIsNext ==
    ASSUME ServerInv, NEW h, HandsOver(h)
    PROVE  /\ h.type \in {"Connect", "Data", "Disconnect"}
           /\ h.type = "Connect" => stage[h.sid] = "unseen"
           /\ h.type # "Connect" => stage[h.sid] = "open"
           /\ h.type # "Data" => h.from = 1 /\ h.upto = 0
           /\ h.type = "Data" => h.from = upto[h.sid] + 1 /\ h.from <= h.upto
<1>1. h = dataQueue[1] /\ 1 \in DOMAIN dataQueue
      /\ \A j \in DOMAIN dataQueue : ~Before(j, 1)
    BY DEF HandsOver, Before
<1>2. OpenInv /\ CloseInv /\ BytesInv
    BY DEF ServerInv, QueueInv
<1>. QED
    BY <1>1, <1>2 DEF OpenInv, CloseInv, BytesInv, Connects, Carries, Disconnects

(* The order of the events that stay in the queue.                            *)
LEMMA HandsOverQueue ==
    ASSUME ServerInv, NEW h, HandsOver(h), UNCHANGED <<got, sid>>,
           Announced' = Announced, Ended' = Ended
    PROVE  QueueInv'
<1>1. /\ h.type \in {"Connect", "Data", "Disconnect"}
      /\ h.type = "Connect" => stage[h.sid] = "unseen"
      /\ h.type # "Connect" => stage[h.sid] = "open"
      /\ h.type = "Data" => h.from = upto[h.sid] + 1 /\ h.from <= h.upto
    BY HeadIsNext
<1>2. AboutInv /\ OpenInv /\ CloseInv /\ BytesInv
    BY DEF ServerInv, QueueInv
<1>3. \A p \in Announced : sid[p] \in Sids
    BY NamesAreUnique, ReportsFollow
<1> USE DEF HandsOver
<1>4. AboutInv'
    <2>1. IsAbout(h.sid)
        BY <1>2 DEF AboutInv
    <2>2. \A s : IsAbout(s)' <=> IsAbout(s)
        BY DEF IsAbout
    <2>3. \A i \in DOMAIN dataQueue' :
              dataQueue'[i].sid \in Sids /\ IsAbout(dataQueue'[i].sid)
        BY <1>2 DEF AboutInv
    <2>4. \A s \in Sids : /\ stage'[s] # "unseen" => IsAbout(s)
                          /\ stage'[s] = "unseen" => upto'[s] = 0
        BY <1>1, <1>2, <2>1 DEF AboutInv
    <2>. QED
        BY <2>2, <2>3, <2>4 DEF AboutInv
<1>5. OpenInv'
    <2>1. ASSUME NEW i \in DOMAIN dataQueue'
          PROVE  /\ Connects(i)' \/ Carries(i)' \/ Disconnects(i)'
                 /\ Connects(i)' =>
                      /\ stage'[dataQueue'[i].sid] = "unseen"
                      /\ dataQueue'[i].from = 1 /\ dataQueue'[i].upto = 0
                      /\ \A j \in DOMAIN dataQueue' : ~Before(j, i)'
        <3> DEFINE k == i + 1
        <3>1. k \in DOMAIN dataQueue /\ dataQueue'[i] = dataQueue[k] /\ 1 < k
            OBVIOUS
        <3>2. Connects(k) \/ Carries(k) \/ Disconnects(k)
            BY <1>2, <3>1 DEF OpenInv
        <3>3. ASSUME Connects(k)
              PROVE  /\ stage'[dataQueue'[i].sid] = "unseen"
                     /\ dataQueue'[i].from = 1 /\ dataQueue'[i].upto = 0
                     /\ \A j \in DOMAIN dataQueue' : ~Before(j, i)'
            <4>1. /\ stage[dataQueue[k].sid] = "unseen"
                  /\ dataQueue[k].from = 1 /\ dataQueue[k].upto = 0
                  /\ \A j \in DOMAIN dataQueue : ~Before(j, k)
                BY <1>2, <3>1, <3>3 DEF OpenInv
            <4>2. dataQueue[k].sid # h.sid /\ dataQueue[k].sid \in Sids
                BY <1>2, <3>1, <4>1 DEF Before, AboutInv
            <4>3. \A j \in DOMAIN dataQueue' : ~Before(j, i)'
                BY <3>1, <4>1 DEF Before
            <4>. QED
                BY <3>1, <4>1, <4>2, <4>3
        <3>. QED
            BY <3>1, <3>2, <3>3 DEF Connects, Carries, Disconnects
    <2>2. ASSUME NEW i \in DOMAIN dataQueue', ~Connects(i)'
          PROVE  \/ stage'[dataQueue'[i].sid] = "open"
                 \/ \E j \in DOMAIN dataQueue' : Before(j, i)' /\ Connects(j)'
        <3> DEFINE k == i + 1
        <3>1. k \in DOMAIN dataQueue /\ dataQueue'[i] = dataQueue[k] /\ 1 < k
            OBVIOUS
        <3>2. dataQueue[k].sid \in Sids
            BY <1>2, <3>1 DEF AboutInv
        <3>3. CASE dataQueue[k].sid = h.sid
            <4>1. h.type # "Disconnect"
                BY <1>2, <3>1, <3>3 DEF CloseInv, Before, Disconnects
            <4>. QED
                BY <1>1, <3>1, <3>3, <4>1
        <3>4. CASE dataQueue[k].sid # h.sid
            <4>1. \/ stage[dataQueue[k].sid] = "open"
                  \/ \E j \in DOMAIN dataQueue : Before(j, k) /\ Connects(j)
                BY <1>2, <2>2, <3>1 DEF OpenInv, Connects
            <4>2. ASSUME NEW j \in DOMAIN dataQueue, Before(j, k), Connects(j)
                  PROVE  \E n \in DOMAIN dataQueue' : Before(n, i)' /\ Connects(n)'
                <5>1. j \in DOMAIN dataQueue \ {1}
                    BY <3>4, <4>2 DEF Before
                <5>2. Before(j - 1, i)' /\ Connects(j - 1)'
                    BY <3>1, <4>2, <5>1 DEF Before, Connects
                <5>. QED
                    BY <5>1, <5>2
            <4>. QED
                BY <3>1, <3>2, <3>4, <4>1, <4>2
        <3>. QED
            BY <3>3, <3>4
    <2>3. ASSUME NEW p \in Announced
          PROVE  stage'[sid[p]] # "unseen" \/ Queued("Connect", sid[p])'
        <3>1. CASE stage[sid[p]] # "unseen"
            BY <1>1, <1>3, <3>1
        <3>2. CASE Queued("Connect", sid[p])
            <4>1. PICK j \in DOMAIN dataQueue : /\ dataQueue[j].type = "Connect"
                                                /\ dataQueue[j].sid = sid[p]
                BY <3>2 DEF Queued
            <4>2. CASE j = 1
                BY <1>3, <4>1, <4>2
            <4>3. CASE j # 1
                <5>1. j - 1 \in DOMAIN dataQueue'
                      /\ dataQueue'[j - 1] = dataQueue[j]
                    BY <4>3
                <5>. QED
                    BY <4>1, <5>1 DEF Queued
            <4>. QED
                BY <4>2, <4>3
        <3>. QED
            BY <1>2, <3>1, <3>2 DEF OpenInv
    <2>. QED
        BY <2>1, <2>2, <2>3 DEF OpenInv
<1>6. CloseInv'
    <2>1. ASSUME NEW i \in DOMAIN dataQueue'
          PROVE  /\ stage'[dataQueue'[i].sid] # "closed"
                 /\ Disconnects(i)' =>
                      dataQueue'[i].from = 1 /\ dataQueue'[i].upto = 0
                 /\ \A j \in DOMAIN dataQueue' : Before(j, i)' => ~Disconnects(j)'
        <3> DEFINE k == i + 1
        <3>1. k \in DOMAIN dataQueue /\ dataQueue'[i] = dataQueue[k] /\ 1 < k
            OBVIOUS
        <3>2. /\ stage[dataQueue[k].sid] # "closed"
              /\ Disconnects(k) => dataQueue[k].from = 1 /\ dataQueue[k].upto = 0
              /\ \A j \in DOMAIN dataQueue : Before(j, k) => ~Disconnects(j)
              /\ dataQueue[k].sid \in Sids
            BY <1>2, <3>1 DEF CloseInv, AboutInv
        <3>3. dataQueue[k].sid = h.sid => h.type # "Disconnect"
            BY <3>1, <3>2 DEF Before, Disconnects
        <3>4. \A j \in DOMAIN dataQueue' : Before(j, i)' => ~Disconnects(j)'
            BY <3>1, <3>2 DEF Before, Disconnects
        <3>. QED
            BY <3>1, <3>2, <3>3, <3>4 DEF Disconnects
    <2>2. ASSUME NEW p \in Announced
          PROVE  p \in Ended <=> \/ stage'[sid[p]] = "closed"
                                 \/ Queued("Disconnect", sid[p])'
        <3>1. p \in Ended <=> \/ stage[sid[p]] = "closed"
                              \/ Queued("Disconnect", sid[p])
            BY <1>2 DEF CloseInv
        <3>2. stage'[sid[p]] = "closed" <=>
                  \/ stage[sid[p]] = "closed"
                  \/ h.sid = sid[p] /\ h.type = "Disconnect"
            BY <1>1, <1>3
        <3>3. Queued("Disconnect", sid[p]) <=>
                  \/ h.sid = sid[p] /\ h.type = "Disconnect"
                  \/ Queued("Disconnect", sid[p])'
            <4>1. ASSUME NEW j \in DOMAIN dataQueue,
                         dataQueue[j].type = "Disconnect",
                         dataQueue[j].sid = sid[p], j # 1
                  PROVE  Queued("Disconnect", sid[p])'
                <5>1. j - 1 \in DOMAIN dataQueue'
                      /\ dataQueue'[j - 1] = dataQueue[j]
                    BY <4>1
                <5>. QED
                    BY <4>1, <5>1 DEF Queued
            <4>2. ASSUME NEW i \in DOMAIN dataQueue',
                         dataQueue'[i].type = "Disconnect",
                         dataQueue'[i].sid = sid[p]
                  PROVE  Queued("Disconnect", sid[p])
                <5>1. i + 1 \in DOMAIN dataQueue
                      /\ dataQueue'[i] = dataQueue[i + 1]
                    OBVIOUS
                <5>. QED
                    BY <4>2, <5>1 DEF Queued
            <4>. QED
                BY <4>1, <4>2 DEF Queued
        <3>. QED
            BY <3>1, <3>2, <3>3
    <2>. QED
        BY <2>1, <2>2 DEF CloseInv
<1>7. BytesInv'
    <2>1. ASSUME NEW i \in DOMAIN dataQueue', Carries(i)'
          PROVE  /\ upto'[dataQueue'[i].sid] < dataQueue'[i].from
                 /\ dataQueue'[i].from <= dataQueue'[i].upto
                 /\ \A j \in DOMAIN dataQueue' : Before(j, i)' /\ Carries(j)' =>
                      dataQueue'[j].upto < dataQueue'[i].from
                 /\ \/ dataQueue'[i].from = upto'[dataQueue'[i].sid] + 1
                    \/ \E j \in DOMAIN dataQueue' :
                         /\ Before(j, i)' /\ Carries(j)'
                         /\ dataQueue'[i].from = dataQueue'[j].upto + 1
        <3> DEFINE k == i + 1
                   e == dataQueue[k]
        <3>1. k \in DOMAIN dataQueue /\ dataQueue'[i] = e /\ 1 < k
            OBVIOUS
        <3>2. Carries(k) /\ e.sid \in Sids
            BY <1>2, <2>1, <3>1 DEF Carries, AboutInv
        <3>3. /\ upto[e.sid] < e.from /\ e.from <= e.upto
              /\ \A j \in DOMAIN dataQueue : Before(j, k) /\ Carries(j) =>
                   dataQueue[j].upto < e.from
              /\ \/ e.from = upto[e.sid] + 1
                 \/ \E j \in DOMAIN dataQueue : /\ Before(j, k) /\ Carries(j)
                                                /\ e.from = dataQueue[j].upto + 1
            BY <1>2, <3>1, <3>2 DEF BytesInv
        <3>4. /\ e.from \in Int /\ e.upto \in Int /\ h.upto \in Int
              /\ h.from \in Int /\ upto[e.sid] \in Int
            <4>1. dataQueue \in Seq(Events) /\ upto \in [Sids -> 0..MaxBytes]
                BY DEF ServerInv, ServerTypeOK
            <4>2. e \in Events /\ h \in Events
                BY <3>1, <4>1
            <4>. QED
                BY <3>2, <4>1, <4>2 DEF Events
        <3>5. \A j \in DOMAIN dataQueue' : Before(j, i)' /\ Carries(j)' =>
                  dataQueue'[j].upto < dataQueue'[i].from
            BY <3>1, <3>3 DEF Before, Carries
        <3>6. ASSUME NEW j \in DOMAIN dataQueue \ {1}, Before(j, k), Carries(j),
                     e.from = dataQueue[j].upto + 1
              PROVE  \E n \in DOMAIN dataQueue' :
                         /\ Before(n, i)' /\ Carries(n)'
                         /\ dataQueue'[i].from = dataQueue'[n].upto + 1
            <4>1. /\ j - 1 \in DOMAIN dataQueue'
                  /\ dataQueue'[j - 1] = dataQueue[j]
                OBVIOUS
            <4>2. Before(j - 1, i)' /\ Carries(j - 1)'
                BY <3>1, <3>6, <4>1 DEF Before, Carries
            <4>. QED
                BY <3>1, <3>6, <4>1, <4>2
        <3>7. CASE e.sid = h.sid /\ h.type = "Data"
            <4>1. upto'[e.sid] = h.upto /\ Before(1, k) /\ Carries(1)
                BY <3>1, <3>2, <3>7 DEF Before, Carries
            <4>2. h.upto < e.from
                BY <3>3, <4>1
            <4>3. e.from # upto[e.sid] + 1
                BY <1>1, <3>4, <3>7, <4>2
            <4>4. PICK j \in DOMAIN dataQueue : /\ Before(j, k) /\ Carries(j)
                                                /\ e.from = dataQueue[j].upto + 1
                BY <3>3, <4>3
            <4>5. CASE j = 1
                BY <3>1, <3>3, <3>5, <4>1, <4>2, <4>4, <4>5
            <4>6. CASE j # 1
                <5>1. \E n \in DOMAIN dataQueue' :
                         /\ Before(n, i)' /\ Carries(n)'
                         /\ dataQueue'[i].from = dataQueue'[n].upto + 1
                    BY <3>6, <4>4, <4>6
                <5>. QED
                    BY <3>1, <3>3, <3>5, <4>1, <4>2, <5>1
            <4>. QED
                BY <4>5, <4>6
        <3>8. CASE ~(e.sid = h.sid /\ h.type = "Data")
            <4>1. upto'[e.sid] = upto[e.sid]
                BY <3>2, <3>8
            <4>2. \A j \in DOMAIN dataQueue : Before(j, k) /\ Carries(j) => j # 1
                BY <3>8 DEF Before, Carries
            <4>3. \/ e.from = upto[e.sid] + 1
                  \/ \E n \in DOMAIN dataQueue' :
                         /\ Before(n, i)' /\ Carries(n)'
                         /\ dataQueue'[i].from = dataQueue'[n].upto + 1
                BY <3>3, <3>6, <4>2
            <4>. QED
                BY <3>1, <3>3, <3>5, <4>1, <4>3
        <3>. QED
            BY <3>7, <3>8
    <2>2. ASSUME NEW p \in Announced
          PROVE  /\ upto'[sid[p]] <= got[p]
                 /\ \A i \in DOMAIN dataQueue' :
                      Carries(i)' /\ dataQueue'[i].sid = sid[p] =>
                          dataQueue'[i].upto <= got[p]
                 /\ \/ got[p] = upto'[sid[p]]
                    \/ \E i \in DOMAIN dataQueue' :
                         /\ Carries(i)' /\ dataQueue'[i].sid = sid[p]
                         /\ dataQueue'[i].upto = got[p]
        <3>1. /\ upto[sid[p]] <= got[p]
              /\ \A i \in DOMAIN dataQueue :
                   Carries(i) /\ dataQueue[i].sid = sid[p] =>
                       dataQueue[i].upto <= got[p]
              /\ \/ got[p] = upto[sid[p]]
                 \/ \E i \in DOMAIN dataQueue :
                      /\ Carries(i) /\ dataQueue[i].sid = sid[p]
                      /\ dataQueue[i].upto = got[p]
            BY <1>2 DEF BytesInv
        <3>2. /\ sid[p] \in Sids /\ upto[sid[p]] \in Int /\ got[p] \in Int
              /\ h.upto \in Int /\ h.from \in Int
            <4>1. /\ dataQueue \in Seq(Events) /\ upto \in [Sids -> 0..MaxBytes]
                  /\ got \in [Peers -> 0..MaxBytes] /\ p \in Peers
                BY ReportsFollow DEF ServerInv, ServerTypeOK, TypeOK
            <4>2. h \in Events
                BY <4>1
            <4>. QED
                BY <1>3, <4>1, <4>2 DEF Events
        <3>3. upto'[sid[p]] <= got[p]
            BY <3>1, <3>2 DEF Carries
        <3>4. \A i \in DOMAIN dataQueue' :
                 Carries(i)' /\ dataQueue'[i].sid = sid[p] =>
                     dataQueue'[i].upto <= got[p]
            BY <3>1 DEF Carries
        <3>5. CASE got[p] = upto[sid[p]]
            <4>1. ~(h.type = "Data" /\ h.sid = sid[p])
                <5>1. h.type = "Data" /\ h.sid = sid[p] => h.upto <= got[p]
                    BY <3>1 DEF Carries
                <5>. QED
                    BY <1>1, <3>2, <3>5, <5>1
            <4>2. upto'[sid[p]] = upto[sid[p]]
                BY <3>2, <4>1
            <4>. QED
                BY <3>3, <3>4, <3>5, <4>2
        <3>6. ASSUME NEW j \in DOMAIN dataQueue, Carries(j),
                     dataQueue[j].sid = sid[p], dataQueue[j].upto = got[p]
              PROVE  \/ got[p] = upto'[sid[p]]
                     \/ \E i \in DOMAIN dataQueue' :
                          /\ Carries(i)' /\ dataQueue'[i].sid = sid[p]
                          /\ dataQueue'[i].upto = got[p]
            <4>1. CASE j = 1
                BY <3>2, <3>6, <4>1 DEF Carries
            <4>2. CASE j # 1
                <5>1. /\ j - 1 \in DOMAIN dataQueue'
                      /\ dataQueue'[j - 1] = dataQueue[j]
                    BY <4>2
                <5>2. Carries(j - 1)'
                    BY <3>6, <5>1 DEF Carries
                <5>. QED
                    BY <3>6, <5>1, <5>2
            <4>. QED
                BY <4>1, <4>2
        <3>. QED
            BY <3>1, <3>3, <3>4, <3>5, <3>6
    <2>. QED
        BY <2>1, <2>2 DEF BytesInv
<1>. QED
    BY <1>4, <1>5, <1>6, <1>7 DEF QueueInv


(* Tick takes an event from the queue.                                        *)
LEMMA DequeueServer ==
    ASSUME ServerInv, TickDequeue
    PROVE  ServerInv'
<1> DEFINE h == Head(dataQueue)
<1>1. /\ HandsOver(h) /\ h \in Events /\ evt' = h
      /\ dataQueue' \in Seq(Events)
      /\ stage' \in [Sids -> {"unseen", "open", "closed"}]
      /\ upto' \in [Sids -> 0..MaxBytes]
    BY DequeueHandsOver
<1>2. /\ UNCHANGED tvars /\ UNCHANGED <<clients, half, toClose, closes, list>>
      /\ mainPc = "tick" /\ mainPc' = "callback"
    BY DEF TickDequeue
<1> HIDE DEF h
<1>3. UNCHANGED <<accPc, accPeer, rd, half, sid, got, buf>>
    BY <1>2 DEF tvars
<1>4. /\ Registered' = Registered /\ Announced' = Announced
      /\ Ended' = Ended /\ NamedInv' /\ HalfInv'
    BY <1>3, ReportsFrame
<1>5. QueueInv' /\ DictionaryInv'
    BY <1>1, <1>2, <1>3, <1>4, HandsOverQueue, DictionaryFrame
<1>6. TransportInv' /\ TypeOK'
    BY NextTransport DEF ServerNext, MainStep, TickStep
<1>7. ServerTypeOK'
    BY <1>1, <1>2, <1>6 DEF ServerInv, ServerTypeOK
<1>8. ListInv'
    <2>1. /\ h.type \in {"Connect", "Data", "Disconnect"}
          /\ h.type = "Connect" => stage[h.sid] = "unseen"
          /\ h.type # "Connect" => stage[h.sid] = "open"
        BY <1>1, HeadIsNext
    <2>2. \A s \in Sids : list[s] = IF stage[s] = "open" THEN 1 ELSE 0
        BY <1>2 DEF ServerInv, ListInv, Moving
    <2>. QED
        BY <1>1, <1>2, <2>1, <2>2 DEF HandsOver, ListInv, Moving
<1>9. ToCloseInv'
    BY <1>2 DEF ServerInv, ToCloseInv
<1>. QED
    BY <1>4, <1>5, <1>6, <1>7, <1>8, <1>9 DEF ServerInv

-----------------------------------------------------------------------------
(* The callbacks on the pool threads.                                         *)

(* OnClientConnected, first the dictionary ...                                *)
LEMMA ConnectedClients ==
    ASSUME ServerInv, NEW c \in Chains, MT_OnClientConnected_Clients(c)
    PROVE  ServerInv'
<1> DEFINE p == accPeer[c]
<1>1. /\ accPc[c] = "connected" /\ p \notin half /\ mainPc # "close"
      /\ clients' = [clients EXCEPT ![sid[p]] = p]
      /\ half' = half \cup {p}
      /\ UNCHANGED tvars /\ UNCHANGED <<dataQueue, mainPc, evt, toClose, closes,
                                        list, stage, upto>>
    BY DEF MT_OnClientConnected_Clients, ClientsFree, app
<1>2. UNCHANGED <<accPc, accPeer, rd, sid, got, buf>>
    BY <1>1 DEF tvars
<1>3. /\ p \in Peers /\ rd[p] = "none"
      /\ \A d \in Chains : accPc[d] \in OwnerPcs /\ accPeer[d] = p => d = c
    BY <1>1, CallbackOwns DEF OwnerPcs
<1>4. p \in Named /\ p \notin Registered
    BY <1>1, <1>3 DEF Named, Registered, OwnerPcs
<1>5. /\ Named' = Named /\ Announced' = Announced /\ Ended' = Ended
      /\ Registered' = Registered \cup {p}
    BY <1>1, <1>2, <1>3 DEF Named, Announced, Ended, Registered
<1>6. NamedInv' /\ HalfInv'
    BY <1>1, <1>2, <1>3, <1>5 DEF ServerInv, NamedInv, HalfInv
<1>7. QueueInv'
    BY <1>1, <1>2, <1>5, QueueFrame
<1>8. /\ sid[p] \in Sids /\ \A q \in Registered : sid[q] # sid[p]
      /\ \A s \in Sids : clients'[s] = IF s = sid[p] THEN p ELSE clients[s]
      /\ \A q \in Registered : sid[q] \in Sids
    BY <1>1, <1>4, NamesAreUnique, ReportsFollow DEF ServerInv, ServerTypeOK
<1>9. DictionaryInv'
    BY <1>2, <1>5, <1>8 DEF ServerInv, DictionaryInv
<1>10. TransportInv' /\ TypeOK'
    BY NextTransport DEF ServerNext, PoolStep
<1>11. ServerTypeOK'
    BY <1>1, <1>3, <1>10 DEF ServerInv, ServerTypeOK
<1>12. ListInv' /\ ToCloseInv'
    BY <1>1 DEF ServerInv, ListInv, ToCloseInv, Moving
<1>. QED
    BY <1>6, <1>7, <1>9, <1>10, <1>11, <1>12 DEF ServerInv


(* A step that puts the event e behind the queue, at place n.                 *)
Enqueues(n, e) ==
    /\ DOMAIN dataQueue' = DOMAIN dataQueue \cup {n}
    /\ dataQueue'[n] = e
    /\ n \in Nat /\ DOMAIN dataQueue \subseteq Nat
    /\ \A i \in DOMAIN dataQueue : i < n /\ dataQueue'[i] = dataQueue[i]
    /\ UNCHANGED <<stage, upto>>

(* Enqueueing at the end of the queue is such a step.                         *)
LEMMA AppendEnqueues ==
    ASSUME ServerInv, NEW e \in Events, dataQueue' = Append(dataQueue, e),
           UNCHANGED <<stage, upto>>
    PROVE  /\ Enqueues(Len(dataQueue) + 1, e)
           /\ dataQueue' \in Seq(Events)
<1>1. dataQueue \in Seq(Events)
    BY DEF ServerInv, ServerTypeOK
<1>. QED
    BY <1>1 DEF Enqueues

(* A connection whose Connect has not been enqueued yet: nothing was handed   *)
(* over and nothing waits under its id.                                       *)
LEMMA UnannouncedIsUnseen ==
    ASSUME ServerInv, NEW p \in Named, p \notin Announced
    PROVE  /\ stage[sid[p]] = "unseen" /\ upto[sid[p]] = 0
           /\ \A i \in DOMAIN dataQueue : dataQueue[i].sid # sid[p]
<1>1. ~IsAbout(sid[p])
    BY NamesAreUnique, ReportsFollow DEF IsAbout
<1>2. sid[p] \in Sids
    BY NamesAreUnique
<1>. QED
    BY <1>1, <1>2 DEF ServerInv, QueueInv, AboutInv

(* An announcement is the first event of its session.                         *)
LEMMA EnqueueConnect ==
    ASSUME ServerInv, NEW p \in Named, p \notin Announced, NEW n, NEW e,
           e.type = "Connect", e.sid = sid[p], e.from = 1, e.upto = 0,
           Enqueues(n, e), UNCHANGED <<got, sid>>,
           Announced' = Announced \cup {p}, Ended' = Ended
    PROVE  QueueInv'
<1>1. /\ stage[sid[p]] = "unseen" /\ upto[sid[p]] = 0
      /\ \A i \in DOMAIN dataQueue : dataQueue[i].sid # sid[p]
    BY UnannouncedIsUnseen
<1>2. AboutInv /\ OpenInv /\ CloseInv /\ BytesInv
    BY DEF ServerInv, QueueInv
<1>3. /\ sid[p] \in Sids /\ \A q \in Announced : sid[q] # sid[p]
      /\ p \notin Ended /\ got[p] = 0
    BY NamesAreUnique, ReportsFollow DEF ServerInv, NamedInv
<1> USE DEF Enqueues
<1>4. \A i, j \in DOMAIN dataQueue' : Before(j, i)' =>
          i # n /\ j # n /\ Before(j, i)
    BY <1>1 DEF Before
<1>5. AboutInv'
    BY <1>2, <1>3 DEF AboutInv, IsAbout
<1>6. OpenInv'
    <2>1. ASSUME NEW i \in DOMAIN dataQueue
          PROVE  /\ Connects(i)' \/ Carries(i)' \/ Disconnects(i)'
                 /\ Connects(i)' =>
                      /\ stage'[dataQueue'[i].sid] = "unseen"
                      /\ dataQueue'[i].from = 1 /\ dataQueue'[i].upto = 0
                      /\ \A j \in DOMAIN dataQueue' : ~Before(j, i)'
                 /\ ~Connects(i)' =>
                      \/ stage'[dataQueue'[i].sid] = "open"
                      \/ \E j \in DOMAIN dataQueue' :
                            Before(j, i)' /\ Connects(j)'
        <3>1. \A j \in DOMAIN dataQueue' : Before(j, i)' =>
                  j \in DOMAIN dataQueue /\ Before(j, i)
            BY <1>4
        <3>. QED
            BY <1>2, <3>1 DEF OpenInv, Connects, Carries, Disconnects, Before
    <2>2. Connects(n)' /\ \A j \in DOMAIN dataQueue' : ~Before(j, n)'
        BY <1>4 DEF Connects
    <2>3. ASSUME NEW q \in Announced'
          PROVE  stage'[sid'[q]] # "unseen" \/ Queued("Connect", sid[q])'
        BY <1>2 DEF OpenInv, Queued
    <2>. QED
        BY <1>1, <2>1, <2>2, <2>3 DEF OpenInv
<1>7. CloseInv'
    <2>1. ASSUME NEW i \in DOMAIN dataQueue'
          PROVE  /\ stage'[dataQueue'[i].sid] # "closed"
                 /\ Disconnects(i)' =>
                      dataQueue'[i].from = 1 /\ dataQueue'[i].upto = 0
                 /\ \A j \in DOMAIN dataQueue' : Before(j, i)' => ~Disconnects(j)'
        BY <1>1, <1>2, <1>4 DEF CloseInv, Disconnects
    <2>2. ASSUME NEW q \in Announced'
          PROVE  q \in Ended <=> \/ stage[sid[q]] = "closed"
                                 \/ Queued("Disconnect", sid[q])'
        <3>1. Queued("Disconnect", sid[q])' <=> Queued("Disconnect", sid[q])
            BY DEF Queued
        <3>2. ~Queued("Disconnect", sid[p])
            BY <1>1 DEF Queued
        <3>. QED
            BY <1>1, <1>2, <1>3, <3>1, <3>2 DEF CloseInv
    <2>. QED
        BY <2>1, <2>2 DEF CloseInv
<1>8. BytesInv'
    <2>1. ASSUME NEW i \in DOMAIN dataQueue', Carries(i)'
          PROVE  /\ upto'[dataQueue'[i].sid] < dataQueue'[i].from
                 /\ dataQueue'[i].from <= dataQueue'[i].upto
                 /\ \A j \in DOMAIN dataQueue' : Before(j, i)' /\ Carries(j)' =>
                      dataQueue'[j].upto < dataQueue'[i].from
                 /\ \/ dataQueue'[i].from = upto'[dataQueue'[i].sid] + 1
                    \/ \E j \in DOMAIN dataQueue' :
                         /\ Before(j, i)' /\ Carries(j)'
                         /\ dataQueue'[i].from = dataQueue'[j].upto + 1
        <3>1. i \in DOMAIN dataQueue /\ Carries(i)
            BY <2>1 DEF Carries
        <3>2. \A j \in DOMAIN dataQueue :
                  /\ Before(j, i)' <=> Before(j, i)
                  /\ Carries(j)' <=> Carries(j)
            BY <3>1 DEF Before, Carries
        <3>. QED
            BY <1>2, <1>4, <3>1, <3>2 DEF BytesInv
    <2>2. ASSUME NEW q \in Announced'
          PROVE  /\ upto[sid[q]] <= got[q]
                 /\ \A i \in DOMAIN dataQueue' :
                      Carries(i)' /\ dataQueue'[i].sid = sid[q] =>
                          dataQueue'[i].upto <= got[q]
                 /\ \/ got[q] = upto[sid[q]]
                    \/ \E i \in DOMAIN dataQueue' :
                         /\ Carries(i)' /\ dataQueue'[i].sid = sid[q]
                         /\ dataQueue'[i].upto = got[q]
        <3>1. CASE q = p
            BY <1>1, <1>3, <3>1 DEF Carries
        <3>2. CASE q # p
            BY <1>2, <3>2 DEF BytesInv, Carries
        <3>. QED
            BY <3>1, <3>2
    <2>. QED
        BY <2>1, <2>2 DEF BytesInv
<1>. QED
    BY <1>5, <1>6, <1>7, <1>8 DEF QueueInv


(* The events that waited already are as before.                              *)
LEMMA EnqueueKeeps ==
    ASSUME NEW n, NEW e, Enqueues(n, e)
    PROVE  /\ \A i, j \in DOMAIN dataQueue : Before(j, i)' <=> Before(j, i)
           /\ \A i \in DOMAIN dataQueue :
                /\ Connects(i)' <=> Connects(i)
                /\ Carries(i)' <=> Carries(i)
                /\ Disconnects(i)' <=> Disconnects(i)
                /\ ~Before(n, i)' /\ i # n
           /\ \A i \in DOMAIN dataQueue :
                Before(i, n)' <=> dataQueue[i].sid = e.sid
           /\ ~Before(n, n)'
BY DEF Enqueues, Before, Connects, Carries, Disconnects

(* Behind a session that is announced and not ended, more may come.           *)
LEMMA AnnouncedIsOpen ==
    ASSUME ServerInv, NEW p \in Announced, p \notin Ended
    PROVE  /\ sid[p] \in Sids /\ stage[sid[p]] # "closed"
           /\ \A i \in DOMAIN dataQueue :
                dataQueue[i].sid = sid[p] => ~Disconnects(i)
           /\ \/ stage[sid[p]] = "open"
              \/ \E i \in DOMAIN dataQueue :
                   dataQueue[i].sid = sid[p] /\ Connects(i)
<1>1. sid[p] \in Sids
    BY NamesAreUnique, ReportsFollow
<1>2. stage[sid[p]] \in {"unseen", "open", "closed"}
    BY <1>1 DEF ServerInv, ServerTypeOK
<1>3. stage[sid[p]] # "closed" /\ ~Queued("Disconnect", sid[p])
    BY DEF ServerInv, QueueInv, CloseInv
<1>4. stage[sid[p]] # "unseen" \/ Queued("Connect", sid[p])
    BY DEF ServerInv, QueueInv, OpenInv
<1>. QED
    BY <1>1, <1>2, <1>3, <1>4 DEF Queued, Connects, Disconnects

(* What an event that is no Connect does to the order of the queue.           *)
LEMMA EnqueueInOrder ==
    ASSUME ServerInv, NEW p \in Announced, p \notin Ended, NEW n, NEW e,
           e.type \in {"Data", "Disconnect"}, e.sid = sid[p],
           e.type = "Disconnect" => e.from = 1 /\ e.upto = 0,
           Enqueues(n, e), UNCHANGED sid, Announced' = Announced,
           Ended' = IF e.type = "Data" THEN Ended ELSE Ended \cup {p}
    PROVE  AboutInv' /\ OpenInv' /\ CloseInv'
<1>1. AboutInv /\ OpenInv /\ CloseInv
    BY DEF ServerInv, QueueInv
<1>2. /\ sid[p] \in Sids /\ stage[sid[p]] # "closed"
      /\ \A i \in DOMAIN dataQueue :
           dataQueue[i].sid = sid[p] => ~Disconnects(i)
      /\ \/ stage[sid[p]] = "open"
         \/ \E i \in DOMAIN dataQueue :
              dataQueue[i].sid = sid[p] /\ Connects(i)
    BY AnnouncedIsOpen
<1>3. /\ \A i, j \in DOMAIN dataQueue : Before(j, i)' <=> Before(j, i)
      /\ \A i \in DOMAIN dataQueue :
           /\ Connects(i)' <=> Connects(i)
           /\ Carries(i)' <=> Carries(i)
           /\ Disconnects(i)' <=> Disconnects(i)
           /\ ~Before(n, i)' /\ i # n
      /\ \A i \in DOMAIN dataQueue :
           Before(i, n)' <=> dataQueue[i].sid = e.sid
      /\ ~Before(n, n)'
    BY EnqueueKeeps
<1>4. /\ DOMAIN dataQueue' = DOMAIN dataQueue \cup {n} /\ dataQueue'[n] = e
      /\ \A i \in DOMAIN dataQueue : dataQueue'[i] = dataQueue[i]
      /\ UNCHANGED <<stage, upto>>
    BY DEF Enqueues
<1>5. /\ ~Connects(n)' /\ (Carries(n)' \/ Disconnects(n)')
      /\ Disconnects(n)' <=> e.type = "Disconnect"
    BY <1>4 DEF Connects, Carries, Disconnects
<1>6. AboutInv'
    BY <1>1, <1>2, <1>4 DEF AboutInv, IsAbout
<1>7. \A t \in {"Connect", "Disconnect"} : \A q \in Announced :
          Queued(t, sid[q])' <=> Queued(t, sid[q]) \/ (t = e.type /\ q = p)
    <2>1. \A q \in Announced : sid[q] = sid[p] => q = p
        BY NamesAreUnique, ReportsFollow
    <2>. QED
        BY <1>4, <2>1 DEF Queued
<1>8. OpenInv'
    <2>1. \A i \in DOMAIN dataQueue' :
              /\ Connects(i)' \/ Carries(i)' \/ Disconnects(i)'
              /\ Connects(i)' =>
                   /\ stage[dataQueue'[i].sid] = "unseen"
                   /\ dataQueue'[i].from = 1 /\ dataQueue'[i].upto = 0
                   /\ \A j \in DOMAIN dataQueue' : ~Before(j, i)'
        BY <1>1, <1>3, <1>4, <1>5 DEF OpenInv
    <2>2. ASSUME NEW i \in DOMAIN dataQueue', ~Connects(i)'
          PROVE  \/ stage[dataQueue'[i].sid] = "open"
                 \/ \E j \in DOMAIN dataQueue' : Before(j, i)' /\ Connects(j)'
        <3>1. CASE i = n
            BY <1>2, <1>3, <1>4, <3>1
        <3>2. CASE i # n
            BY <1>1, <1>3, <1>4, <2>2, <3>2 DEF OpenInv
        <3>. QED
            BY <3>1, <3>2
    <2>3. \A q \in Announced :
              stage[sid[q]] # "unseen" \/ Queued("Connect", sid[q])'
        BY <1>1, <1>7 DEF OpenInv
    <2>. QED
        BY <1>4, <2>1, <2>2, <2>3 DEF OpenInv
<1>9. CloseInv'
    <2>1. \A i \in DOMAIN dataQueue' :
              /\ stage[dataQueue'[i].sid] # "closed"
              /\ Disconnects(i)' =>
                   dataQueue'[i].from = 1 /\ dataQueue'[i].upto = 0
              /\ \A j \in DOMAIN dataQueue' : Before(j, i)' => ~Disconnects(j)'
        BY <1>1, <1>2, <1>3, <1>4, <1>5 DEF CloseInv
    <2>2. \A q \in Announced :
              q \in Ended' <=> \/ stage[sid[q]] = "closed"
                               \/ Queued("Disconnect", sid[q])'
        BY <1>1, <1>7 DEF CloseInv
    <2>. QED
        BY <1>4, <2>1, <2>2 DEF CloseInv
<1>. QED
    BY <1>6, <1>8, <1>9


(* The numbers a queued event and its session carry.                          *)
LEMMA BytesAreNumbers ==
    ASSUME ServerInv
    PROVE  /\ \A i \in DOMAIN dataQueue :
                dataQueue[i].from \in Int /\ dataQueue[i].upto \in Int
           /\ \A s \in Sids : upto[s] \in Int
           /\ \A p \in Announced : got[p] \in Int /\ sid[p] \in Sids
<1>1. /\ dataQueue \in Seq(Events) /\ upto \in [Sids -> 0..MaxBytes]
      /\ got \in [Peers -> 0..MaxBytes]
    BY DEF ServerInv, ServerTypeOK, TypeOK
<1>2. \A i \in DOMAIN dataQueue : dataQueue[i] \in Events
    BY <1>1
<1>3. \A e \in Events : e.from \in Int /\ e.upto \in Int
    BY DEF Events
<1>. QED
    BY <1>1, <1>2, <1>3, NamesAreUnique, ReportsFollow

(* A datagram is enqueued with the bytes after the last one reported.         *)
LEMMA EnqueueData ==
    ASSUME ServerInv, NEW p \in Announced, p \notin Ended, NEW n, NEW e,
           e.type = "Data", e.sid = sid[p], e.upto \in Int,
           e.from = got[p] + 1, e.from <= e.upto,
           Enqueues(n, e), UNCHANGED sid, Announced' = Announced,
           Ended' = Ended,
           \A q \in Announced : got'[q] = IF q = p THEN e.upto ELSE got[q]
    PROVE  QueueInv'
<1>1. AboutInv' /\ OpenInv' /\ CloseInv'
    BY EnqueueInOrder
<1>2. BytesInv
    BY DEF ServerInv, QueueInv
<1>3. /\ \A i, j \in DOMAIN dataQueue : Before(j, i)' <=> Before(j, i)
      /\ \A i \in DOMAIN dataQueue : /\ Carries(i)' <=> Carries(i)
                                     /\ ~Before(n, i)' /\ i # n
      /\ \A i \in DOMAIN dataQueue :
           Before(i, n)' <=> dataQueue[i].sid = e.sid
      /\ ~Before(n, n)'
    BY EnqueueKeeps
<1>4. /\ DOMAIN dataQueue' = DOMAIN dataQueue \cup {n} /\ dataQueue'[n] = e
      /\ \A i \in DOMAIN dataQueue : dataQueue'[i] = dataQueue[i]
      /\ UNCHANGED <<stage, upto>>
    BY DEF Enqueues
<1>5. Carries(n)'
    BY <1>4 DEF Carries
<1>6. /\ \A i \in DOMAIN dataQueue :
           dataQueue[i].from \in Int /\ dataQueue[i].upto \in Int
      /\ \A s \in Sids : upto[s] \in Int
      /\ \A q \in Announced : got[q] \in Int /\ sid[q] \in Sids
    BY BytesAreNumbers
<1>7. /\ upto[sid[p]] <= got[p]
      /\ \A i \in DOMAIN dataQueue : Carries(i) /\ dataQueue[i].sid = sid[p] =>
           dataQueue[i].upto <= got[p]
      /\ \/ got[p] = upto[sid[p]]
         \/ \E i \in DOMAIN dataQueue :
              /\ Carries(i) /\ dataQueue[i].sid = sid[p]
              /\ dataQueue[i].upto = got[p]
    BY <1>2 DEF BytesInv
<1>8. ASSUME NEW i \in DOMAIN dataQueue', Carries(i)'
      PROVE  /\ upto[dataQueue'[i].sid] < dataQueue'[i].from
             /\ dataQueue'[i].from <= dataQueue'[i].upto
             /\ \A j \in DOMAIN dataQueue' : Before(j, i)' /\ Carries(j)' =>
                  dataQueue'[j].upto < dataQueue'[i].from
             /\ \/ dataQueue'[i].from = upto[dataQueue'[i].sid] + 1
                \/ \E j \in DOMAIN dataQueue' :
                     /\ Before(j, i)' /\ Carries(j)'
                     /\ dataQueue'[i].from = dataQueue'[j].upto + 1
    <2>1. CASE i = n
        <3>1. dataQueue'[i] = e
            BY <1>4, <2>1
        <3>2. upto[e.sid] < e.from
            BY <1>6, <1>7
        <3>3. \A j \in DOMAIN dataQueue' : Before(j, i)' /\ Carries(j)' =>
                  dataQueue'[j].upto < e.from
            BY <1>3, <1>4, <1>6, <1>7, <2>1
        <3>4. \/ e.from = upto[e.sid] + 1
              \/ \E j \in DOMAIN dataQueue' :
                   /\ Before(j, i)' /\ Carries(j)'
                   /\ e.from = dataQueue'[j].upto + 1
            BY <1>3, <1>4, <1>7, <2>1
        <3>. QED
            BY <3>1, <3>2, <3>3, <3>4
    <2>2. CASE i # n
        <3>1. i \in DOMAIN dataQueue /\ Carries(i) /\ dataQueue'[i] = dataQueue[i]
            BY <1>3, <1>4, <1>8, <2>2
        <3>2. \A j \in DOMAIN dataQueue' : Before(j, i)' =>
                  j \in DOMAIN dataQueue /\ Before(j, i)
            BY <1>3, <1>4, <3>1
        <3>. QED
            BY <1>2, <1>3, <1>4, <3>1, <3>2 DEF BytesInv
    <2>. QED
        BY <2>1, <2>2
<1>9. ASSUME NEW q \in Announced
      PROVE  /\ upto[sid[q]] <= got'[q]
             /\ \A i \in DOMAIN dataQueue' :
                  Carries(i)' /\ dataQueue'[i].sid = sid[q] =>
                      dataQueue'[i].upto <= got'[q]
             /\ \/ got'[q] = upto[sid[q]]
                \/ \E i \in DOMAIN dataQueue' :
                     /\ Carries(i)' /\ dataQueue'[i].sid = sid[q]
                     /\ dataQueue'[i].upto = got'[q]
    <2>1. CASE q = p
        <3>1. got'[q] = e.upto /\ got[p] < e.upto
            BY <1>6, <2>1
        <3>2. \A i \in DOMAIN dataQueue' :
                  Carries(i)' /\ dataQueue'[i].sid = sid[q] =>
                      dataQueue'[i].upto <= e.upto
            BY <1>3, <1>4, <1>6, <1>7, <2>1, <3>1
        <3>3. upto[sid[q]] <= e.upto
            BY <1>6, <1>7, <2>1, <3>1
        <3>. QED
            BY <1>4, <1>5, <2>1, <3>1, <3>2, <3>3
    <2>2. CASE q # p
        <3>1. got'[q] = got[q] /\ sid[q] # e.sid
            BY <2>2, NamesAreUnique, ReportsFollow
        <3>. QED
            BY <1>2, <1>3, <1>4, <3>1 DEF BytesInv
    <2>. QED
        BY <2>1, <2>2
<1>10. BytesInv'
    BY <1>4, <1>8, <1>9 DEF BytesInv
<1>. QED
    BY <1>1, <1>10 DEF QueueInv

(* The end of a session is enqueued behind everything else of it.             *)
LEMMA EnqueueDisconnect ==
    ASSUME ServerInv, NEW p \in Announced, p \notin Ended, NEW n, NEW e,
           e.type = "Disconnect", e.sid = sid[p], e.from = 1, e.upto = 0,
           Enqueues(n, e), UNCHANGED <<sid, got>>, Announced' = Announced,
           Ended' = Ended \cup {p}
    PROVE  QueueInv'
<1>1. AboutInv' /\ OpenInv' /\ CloseInv'
    BY EnqueueInOrder
<1>2. BytesInv
    BY DEF ServerInv, QueueInv
<1>3. /\ \A i, j \in DOMAIN dataQueue : Before(j, i)' <=> Before(j, i)
      /\ \A i \in DOMAIN dataQueue : /\ Carries(i)' <=> Carries(i)
                                     /\ ~Before(n, i)' /\ i # n
    BY EnqueueKeeps
<1>4. /\ DOMAIN dataQueue' = DOMAIN dataQueue \cup {n} /\ dataQueue'[n] = e
      /\ \A i \in DOMAIN dataQueue : dataQueue'[i] = dataQueue[i]
      /\ UNCHANGED <<stage, upto>>
    BY DEF Enqueues
<1>5. ~Carries(n)'
    BY <1>4 DEF Carries
<1>6. ASSUME NEW i \in DOMAIN dataQueue', Carries(i)'
      PROVE  /\ i \in DOMAIN dataQueue /\ Carries(i)
             /\ \A j \in DOMAIN dataQueue' :
                  Before(j, i)' <=> j \in DOMAIN dataQueue /\ Before(j, i)
    BY <1>3, <1>4, <1>5, <1>6
<1>7. BytesInv'
    BY <1>2, <1>3, <1>4, <1>5, <1>6 DEF BytesInv
<1>. QED
    BY <1>1, <1>7 DEF QueueInv


(* ... OnClientConnected, then the queue.                                     *)
LEMMA ConnectedQueue ==
    ASSUME ServerInv, NEW c \in Chains, MT_OnClientConnected_Queue(c)
    PROVE  ServerInv'
<1> DEFINE p == accPeer[c]
           e == Event("Connect", sid[p], 1, 0)
<1> USE DEF ServerInv
<1>1. /\ accPc[c] = "connected" /\ accPc' = [accPc EXCEPT ![c] = "begin"]
      /\ p \in half /\ half' = half \ {p}
      /\ dataQueue' = Append(dataQueue, e)
      /\ UNCHANGED <<accPeer, rd, sid, got, buf>>
      /\ UNCHANGED <<clients, mainPc, evt, toClose, closes, list, stage, upto>>
    BY DEF MT_OnClientConnected_Queue, OnClientConnected, receive, app
<1>2. /\ p \in Peers /\ rd[p] = "none"
      /\ \A d \in Chains : accPc[d] \in OwnerPcs /\ accPeer[d] = p => d = c
    BY <1>1, CallbackOwns DEF OwnerPcs
<1>3. \A d \in Chains : accPc'[d] = IF d = c THEN "begin" ELSE accPc[d]
    BY <1>1 DEF ServerTypeOK, TypeOK
<1>4. p \in Named /\ p \notin Announced
    BY <1>1, <1>2 DEF Named, Announced, OwnerPcs
<1>5. /\ Named' = Named /\ Registered' = Registered /\ Ended' = Ended
      /\ Announced' = Announced \cup {p}
    <2>1. Named' = Named
        BY <1>1, <1>3 DEF Named
    <2>2. Ended' = Ended
        BY <1>1, <1>2 DEF Ended
    <2>3. Announced' = Announced \cup {p}
        BY <1>1, <1>2, <1>3 DEF Announced
    <2>4. Registered' = Registered
        BY <1>1, <1>2, <1>3 DEF Registered, OwnerPcs
    <2>. QED
        BY <2>1, <2>2, <2>3, <2>4
<1>6. NamedInv'
    BY <1>1, <1>5 DEF NamedInv
<1>7. HalfInv'
    <2>1. ASSUME NEW q \in half'
          PROVE  \/ rd[q] = "gone"
                 \/ \E d \in Chains : accPc'[d] = "connected" /\ accPeer[d] = q
        <3>1. q # p /\ q \in half
            BY <1>1
        <3>. QED
            BY <1>3, <3>1 DEF HalfInv
    <2>. QED
        BY <1>1, <2>1 DEF HalfInv
<1>8. DictionaryInv'
    BY <1>1, <1>5, DictionaryFrame
<1>9. /\ e.type = "Connect" /\ e.sid = sid[p] /\ e.from = 1 /\ e.upto = 0
      /\ e \in Events
    <2>1. sid[p] \in 0..MaxSid
        BY <1>2 DEF ServerTypeOK, TypeOK
    <2>. QED
        BY <2>1, TransportAssumption DEF Event, Events
<1> HIDE DEF e
<1>10. Enqueues(Len(dataQueue) + 1, e) /\ dataQueue' \in Seq(Events)
    BY <1>1, <1>9, AppendEnqueues
<1>11. QueueInv'
    BY <1>1, <1>4, <1>5, <1>9, <1>10, EnqueueConnect
<1>12. TransportInv' /\ TypeOK'
    BY NextTransport DEF ServerNext, PoolStep
<1>13. ServerTypeOK'
    BY <1>1, <1>10, <1>12 DEF ServerTypeOK
<1>14. ListInv' /\ ToCloseInv'
    BY <1>1 DEF ListInv, ToCloseInv, Moving
<1>. QED
    BY <1>6, <1>7, <1>8, <1>11, <1>12, <1>13, <1>14

(* A connection whose reads have begun is announced and registered until its  *)
(* OnClientDisconnected is over; no accept callback has it.                   *)
LEMMA ReaderOwns ==
    ASSUME ServerInv, NEW p \in Peers, rd[p] \in {"gone", "datagram"}
    PROVE  /\ p \in Announced /\ p \in Registered
           /\ \A c \in Chains : accPc[c] \in OwnerPcs => accPeer[c] # p
BY CallbackOwns DEF Announced, Registered

(* OnClientDisconnected, first the queue ...                                  *)
LEMMA DisconnectedQueue ==
    ASSUME ServerInv, NEW p \in Peers, MT_OnClientDisconnected_Queue(p)
    PROVE  ServerInv'
<1> DEFINE e == Event("Disconnect", sid[p], 1, 0)
<1> USE DEF ServerInv
<1>1. /\ rd[p] = "gone" /\ p \notin half /\ half' = half \cup {p}
      /\ dataQueue' = Append(dataQueue, e)
      /\ UNCHANGED <<accPc, accPeer, rd, sid, got, buf>>
      /\ UNCHANGED <<clients, mainPc, evt, toClose, closes, list, stage, upto>>
    BY DEF MT_OnClientDisconnected_Queue, tvars, app
<1>2. /\ p \in Announced /\ p \in Registered /\ p \notin Ended
      /\ \A c \in Chains : accPc[c] \in OwnerPcs => accPeer[c] # p
    BY <1>1, ReaderOwns DEF Ended
<1>3. /\ Named' = Named /\ Registered' = Registered
      /\ Announced' = Announced /\ Ended' = Ended \cup {p}
    <2>1. Named' = Named /\ Announced' = Announced
        BY <1>1 DEF Named, Announced
    <2>2. Registered' = Registered
        BY <1>1, <1>2 DEF Registered, OwnerPcs
    <2>3. Ended' = Ended \cup {p}
        BY <1>1 DEF Ended
    <2>. QED
        BY <2>1, <2>2, <2>3
<1>4. NamedInv' /\ HalfInv'
    BY <1>1, <1>3 DEF NamedInv, HalfInv
<1>5. DictionaryInv'
    BY <1>1, <1>3, DictionaryFrame
<1>6. /\ e.type = "Disconnect" /\ e.sid = sid[p] /\ e.from = 1 /\ e.upto = 0
      /\ e \in Events
    <2>1. sid[p] \in 0..MaxSid
        BY DEF ServerTypeOK, TypeOK
    <2>. QED
        BY <2>1, TransportAssumption DEF Event, Events
<1> HIDE DEF e
<1>7. Enqueues(Len(dataQueue) + 1, e) /\ dataQueue' \in Seq(Events)
    BY <1>1, <1>6, AppendEnqueues
<1>8. QueueInv'
    BY <1>1, <1>2, <1>3, <1>6, <1>7, EnqueueDisconnect
<1>9. TransportInv' /\ TypeOK'
    BY NextTransport DEF ServerNext, PoolStep
<1>10. ServerTypeOK'
    BY <1>1, <1>7, <1>9 DEF ServerTypeOK
<1>11. ListInv' /\ ToCloseInv'
    BY <1>1 DEF ListInv, ToCloseInv, Moving
<1>. QED
    BY <1>4, <1>5, <1>8, <1>9, <1>10, <1>11

(* ... then the dictionary.                                                   *)
LEMMA DisconnectedClients ==
    ASSUME ServerInv, NEW p \in Peers, MT_OnClientDisconnected_Clients(p)
    PROVE  ServerInv'
<1> USE DEF ServerInv
<1>1. /\ rd[p] = "gone" /\ p \in half /\ half' = half \ {p}
      /\ rd' = [rd EXCEPT ![p] = "closed"]
      /\ clients' = [clients EXCEPT ![sid[p]] = NoPeer]
      /\ mainPc # "close"
      /\ UNCHANGED <<accPc, accPeer, sid, got, buf>>
      /\ UNCHANGED <<dataQueue, mainPc, evt, toClose, closes, list, stage,
                     upto>>
    BY DEF MT_OnClientDisconnected_Clients, OnClientDisconnected, ClientsFree,
           accept, app
<1>2. /\ p \in Announced /\ p \in Registered
      /\ \A c \in Chains : accPc[c] \in OwnerPcs => accPeer[c] # p
    BY <1>1, ReaderOwns
<1>3. \A q \in Peers : rd'[q] = IF q = p THEN "closed" ELSE rd[q]
    BY <1>1 DEF ServerTypeOK, TypeOK
<1>4. /\ Named' = Named /\ Registered' = Registered \ {p}
      /\ Announced' = Announced /\ Ended' = Ended
    <2>1. Named' = Named /\ Announced' = Announced
        BY <1>1, <1>3 DEF Named, Announced
    <2>2. Registered' = Registered \ {p}
        BY <1>1, <1>2, <1>3 DEF Registered, OwnerPcs
    <2>3. Ended' = Ended
        BY <1>1, <1>3 DEF Ended
    <2>. QED
        BY <2>1, <2>2, <2>3
<1>5. NamedInv'
    BY <1>1, <1>3, <1>4 DEF NamedInv
<1>6. HalfInv'
    BY <1>1, <1>3 DEF HalfInv, ServerTypeOK
<1>7. /\ \A q \in Registered : sid[q] \in Sids
      /\ \A q \in Registered : sid[q] = sid[p] => q = p
    BY <1>2, NamesAreUnique, ReportsFollow
<1>8. \A s \in Sids : clients'[s] = IF s = sid[p] THEN NoPeer ELSE clients[s]
    BY <1>1 DEF ServerTypeOK
<1>9. DictionaryInv'
    BY <1>1, <1>4, <1>7, <1>8 DEF DictionaryInv
<1>10. QueueInv'
    BY <1>1, <1>4, QueueFrame
<1>11. TransportInv' /\ TypeOK'
    BY NextTransport DEF ServerNext, PoolStep
<1>12. ServerTypeOK'
    BY <1>1, <1>11 DEF ServerTypeOK
<1>13. ListInv' /\ ToCloseInv'
    BY <1>1 DEF ListInv, ToCloseInv, Moving
<1>. QED
    BY <1>5, <1>6, <1>9, <1>10, <1>11, <1>12, <1>13

(* OnDatagramReceived: the buffer holds the bytes after the last datagram.    *)
LEMMA DatagramServer ==
    ASSUME ServerInv, NEW p \in Peers, MT_OnDatagramReceived(p)
    PROVE  ServerInv'
<1> DEFINE e == Event("Data", sid[p], buf[p].from, buf[p].upto)
<1> USE DEF ServerInv
<1>1. /\ rd[p] = "datagram" /\ rd' = [rd EXCEPT ![p] = "repost"]
      /\ got' = [got EXCEPT ![p] = buf[p].upto]
      /\ dataQueue' = Append(dataQueue, e)
      /\ UNCHANGED <<accPc, accPeer, half, sid, buf>>
      /\ UNCHANGED <<clients, mainPc, evt, toClose, closes, list, stage, upto>>
    BY DEF MT_OnDatagramReceived, OnDatagramReceived, accept, app
<1>2. p \in Announced /\ p \in Registered
    BY <1>1, ReaderOwns
<1>3. p \notin Ended
    BY <1>1 DEF Ended
<1>4. /\ \A q \in Peers : rd'[q] = IF q = p THEN "repost" ELSE rd[q]
      /\ \A q \in Peers : got'[q] = IF q = p THEN buf[p].upto ELSE got[q]
    BY <1>1 DEF ServerTypeOK, TypeOK
<1>5. /\ Named' = Named /\ Registered' = Registered
      /\ Announced' = Announced /\ Ended' = Ended
    BY <1>1, <1>4 DEF Named, Registered, Announced, Ended
<1>6. NamedInv'
    BY <1>1, <1>2, <1>4, <1>5 DEF NamedInv
<1>7. HalfInv'
    BY <1>1, <1>4 DEF HalfInv, ServerTypeOK
<1>8. DictionaryInv'
    BY <1>1, <1>5, DictionaryFrame
<1>9. buf[p].from = got[p] + 1 /\ buf[p].from <= buf[p].upto
    <2>1. DatagramsContiguous
        BY DEF TransportInv, DatagramInv
    <2>2. buf[p] = [from |-> got[p] + 1, upto |-> taken[p]]
        BY <1>1, <2>1 DEF DatagramsContiguous
    <2>3. buf[p].from = got[p] + 1
        BY <2>2
    <2>. QED
        BY <1>1, <2>3 DEF NamedInv
<1>10. buf[p] \in Interval /\ sid[p] \in 0..MaxSid
    BY DEF ServerTypeOK, TypeOK
<1>11. /\ e.type = "Data" /\ e.sid = sid[p] /\ e.from = buf[p].from
       /\ e.upto = buf[p].upto /\ e \in Events /\ e.upto \in Int
    BY <1>10 DEF Event, Events, Interval
<1> HIDE DEF e
<1>12. Enqueues(Len(dataQueue) + 1, e) /\ dataQueue' \in Seq(Events)
    BY <1>1, <1>11, AppendEnqueues
<1>13. QueueInv'
    <2>1. \A q \in Announced : got'[q] = IF q = p THEN e.upto ELSE got[q]
        BY <1>4, <1>11, ReportsFollow
    <2>. QED
        BY <1>1, <1>2, <1>3, <1>5, <1>9, <1>11, <1>12, <2>1, EnqueueData
<1>14. TransportInv' /\ TypeOK'
    BY NextTransport DEF ServerNext, PoolStep
<1>15. ServerTypeOK'
    BY <1>1, <1>12, <1>14 DEF ServerTypeOK
<1>16. ListInv' /\ ToCloseInv'
    BY <1>1 DEF ListInv, ToCloseInv, Moving
<1>. QED
    BY <1>6, <1>7, <1>8, <1>13, <1>14, <1>15, <1>16

-----------------------------------------------------------------------------
(* Every step keeps the invariant.                                            *)
LEMMA ServerSteps == ServerInv /\ [ServerNext]_vars => ServerInv'
<1> SUFFICES ASSUME ServerInv, [ServerNext]_vars PROVE ServerInv'
    OBVIOUS
<1>1. CASE UNCHANGED vars
    <2>1. /\ UNCHANGED <<dataQueue, clients, half, mainPc, evt, toClose, closes,
                         list, stage, upto>>
          /\ UNCHANGED <<accPc, accPeer, rd, sid, got, buf>>
        BY <1>1 DEF vars
    <2>2. /\ Registered' = Registered /\ Announced' = Announced
          /\ Ended' = Ended /\ NamedInv' /\ HalfInv'
        BY <2>1, ReportsFrame
    <2>3. QueueInv' /\ DictionaryInv'
        BY <2>1, <2>2, QueueFrame, DictionaryFrame
    <2>4. TransportInv' /\ TypeOK'
        BY NextTransport
    <2>5. ServerTypeOK'
        BY <2>1, <2>4 DEF ServerInv, ServerTypeOK
    <2>6. ListInv' /\ ToCloseInv'
        BY <2>1 DEF ServerInv, ListInv, ToCloseInv, Moving
    <2>. QED
        BY <2>2, <2>3, <2>4, <2>5, <2>6 DEF ServerInv
<1>2. CASE MainStep
    <2>1. \/ NetServerStart \/ TickDequeue
          \/ AppConnected \/ AppDisconnected \/ AppData \/ AppReply
          \/ \/ TickBegin \/ TickEnd \/ CloseBegin \/ CloseStep
             \/ \E s \in Sids : AppSend(s) \/ AppDisconnect(s)
        BY <1>2 DEF MainStep, TickStep
    <2>. QED
        BY <2>1, StartServer, CallbackServer, IdleServer, DequeueServer
<1>3. CASE PoolStep
    BY <1>3, ConnectedClients, ConnectedQueue, DisconnectedQueue,
       DisconnectedClients, DatagramServer DEF PoolStep
<1>4. CASE TransportStep
    BY <1>4, TransportServer
<1>. QED
    BY <1>1, <1>2, <1>3, <1>4 DEF ServerNext

(* So it always holds.                                                        *)
LEMMA ServerInvariant == ServerSpec => []ServerInv
BY InitServer, ServerSteps, PTL DEF ServerSpec


-----------------------------------------------------------------------------
(* The variables of the server keep their types, whatever the pool threads,   *)
(* the application and the clients do (NetServer.cs, NetFrame.cs).            *)
THEOREM ServerTyped == ServerSpec => []ServerTypeOK
<1>1. ServerInv => ServerTypeOK
    BY DEF ServerInv
<1>. QED
    BY <1>1, ServerInvariant, PTL

(* NetServer.Send finds every session that is open for the application and    *)
(* whose end is not waiting in the queue (NetServer.cs:20-52).                *)
THEOREM ServerKnowsOpenSessions == ServerSpec => []OpenSessionsAreKnown
<1>1. ServerInv => OpenSessionsAreKnown
    <2> SUFFICES ASSUME ServerInv, NEW s \in Sids, stage[s] = "open",
                        ~Queued("Disconnect", s)
                 PROVE  clients[s] # NoPeer
        BY DEF OpenSessionsAreKnown
    <2>1. PICK p \in Announced : sid[p] = s
        BY DEF ServerInv, QueueInv, AboutInv, IsAbout
    <2>2. p \notin Ended
        BY <2>1 DEF ServerInv, QueueInv, CloseInv
    <2>3. p \in Registered
        BY <2>1, <2>2 DEF Announced, Ended, Registered
    <2>4. clients[s] = p /\ p \in Peers
        BY <2>1, <2>3, ReportsFollow DEF ServerInv, DictionaryInv, Registered
    <2>. QED
        BY <2>4, TransportAssumption
<1>. QED
    BY <1>1, ServerInvariant, PTL

(* Server.clients has the open sessions, each once, whatever exceptions have  *)
(* left Tick (Server.cs:17-28, NetServer.cs:108-136).                         *)
THEOREM ServerList == ServerSpec => []ListHasOpenSessions
<1>1. ServerInv => ListHasOpenSessions
    BY DEF ServerInv, ListInv, Moving, ListHasOpenSessions
<1>. QED
    BY <1>1, ServerInvariant, PTL

(* NetServer with its application uses the transport as its specification     *)
(* allows: what is proved of AsyncTcpServer holds under NetServer.            *)
THEOREM ServerUsesTransport == ServerSpec => Spec
<1>1. ServerInit => Init
    BY DEF ServerInit
<1>2. ServerInv /\ [ServerNext]_vars => [Next]_tvars
    BY ServerStepsTransport DEF vars, tvars
<1>. QED
    BY <1>1, <1>2, ServerInvariant, PTL DEF ServerSpec, Spec

-----------------------------------------------------------------------------
(* The refinement.                                                            *)

(* Initial states are initial states of SessionEvents.                        *)
LEMMA SessionsInit == ServerInit => Sessions!Init
BY DEF ServerInit, Sessions!Init, Sessions!NoEvent, NoEvent, Event

(* Taking an event from the queue is an event of SessionEvents.               *)
LEMMA DequeueIsEvent ==
    ASSUME ServerInv, TickDequeue
    PROVE  Sessions!Next
<1> DEFINE h == Head(dataQueue)
<1>1. /\ HandsOver(h) /\ h \in Events /\ evt' = h
      /\ stage' \in [Sids -> {"unseen", "open", "closed"}]
      /\ upto' \in [Sids -> 0..MaxBytes]
    BY DequeueHandsOver
<1>2. evt = Sessions!NoEvent
    BY DEF TickDequeue, ServerInv, ListInv, NoEvent, Event, Sessions!NoEvent
<1> HIDE DEF h
<1>3. /\ h.type \in {"Connect", "Data", "Disconnect"}
      /\ h.type = "Connect" => stage[h.sid] = "unseen"
      /\ h.type # "Connect" => stage[h.sid] = "open"
      /\ h.type # "Data" => h.from = 1 /\ h.upto = 0
      /\ h.type = "Data" => h.from = upto[h.sid] + 1 /\ h.from <= h.upto
    BY <1>1, HeadIsNext
<1>4. h.sid \in Sids
    BY <1>1 DEF HandsOver
<1>5. h = [type |-> h.type, sid |-> h.sid, from |-> h.from, upto |-> h.upto]
    BY <1>1 DEF Events
<1>6. /\ stage \in [Sids -> {"unseen", "open", "closed"}]
      /\ upto \in [Sids -> 0..MaxBytes]
    BY DEF ServerInv, ServerTypeOK
<1>7. CASE h.type = "Connect"
    <2>1. stage' = [stage EXCEPT ![h.sid] = "open"] /\ upto' = upto
        BY <1>1, <1>4, <1>6, <1>7 DEF HandsOver
    <2>2. evt' = [type |-> "Connect", sid |-> h.sid, from |-> 1, upto |-> 0]
        BY <1>1, <1>3, <1>5, <1>7
    <2>3. Sessions!Connect(h.sid)
        BY <1>2, <1>3, <1>7, <2>1, <2>2 DEF Sessions!Connect
    <2>. QED
        BY <1>4, <2>3 DEF Sessions!Next
<1>8. CASE h.type = "Disconnect"
    <2>1. stage' = [stage EXCEPT ![h.sid] = "closed"] /\ upto' = upto
        BY <1>1, <1>4, <1>6, <1>8 DEF HandsOver
    <2>2. evt' = [type |-> "Disconnect", sid |-> h.sid, from |-> 1, upto |-> 0]
        BY <1>1, <1>3, <1>5, <1>8
    <2>3. Sessions!Disconnect(h.sid)
        BY <1>2, <1>3, <1>8, <2>1, <2>2 DEF Sessions!Disconnect
    <2>. QED
        BY <1>4, <2>3 DEF Sessions!Next
<1>9. CASE h.type = "Data"
    <2>1. upto' = [upto EXCEPT ![h.sid] = h.upto] /\ stage' = stage
        BY <1>1, <1>4, <1>6, <1>9 DEF HandsOver
    <2>2. evt' = [type |-> "Data", sid |-> h.sid, from |-> upto[h.sid] + 1,
                  upto |-> h.upto]
        BY <1>1, <1>3, <1>5, <1>9
    <2>3. h.upto \in (upto[h.sid] + 1)..MaxBytes
        BY <1>1, <1>3, <1>4, <1>6, <1>9, TransportAssumption DEF Events
    <2>4. Sessions!Data(h.sid)
        BY <1>2, <1>3, <1>9, <2>1, <2>2, <2>3 DEF Sessions!Data
    <2>. QED
        BY <1>4, <2>4 DEF Sessions!Next
<1>. QED
    BY <1>3, <1>7, <1>8, <1>9

(* Every step is one of SessionEvents or changes nothing there.               *)
LEMMA ServerStepsSessions ==
    ServerInv /\ [ServerNext]_vars => [Sessions!Next]_<<stage, upto, evt>>
<1> SUFFICES ASSUME ServerInv, [ServerNext]_vars
             PROVE  [Sessions!Next]_<<stage, upto, evt>>
    OBVIOUS
<1>1. CASE TickDequeue
    BY <1>1, DequeueIsEvent
<1>2. CASE AppConnected \/ AppDisconnected \/ AppData \/ AppReply
    <2>1. UNCHANGED <<stage, upto>> /\ (evt' = NoEvent \/ evt' = evt)
        BY <1>2 DEF AppConnected, AppDisconnected, AppData, AppReply
    <2>. QED
        BY <2>1 DEF Sessions!Next, Sessions!Return, Sessions!NoEvent, NoEvent,
                    Event
<1>3. CASE \/ TickBegin \/ TickEnd \/ CloseBegin \/ CloseStep
           \/ \E s \in Sids : AppSend(s) \/ AppDisconnect(s)
    BY <1>3 DEF TickBegin, TickEnd, CloseBegin, CloseStep, CloseNext, CloseEnd,
                AppSend, AppDisconnect, app
<1>4. CASE NetServerStart \/ PoolStep \/ TransportStep \/ UNCHANGED vars
    BY <1>4 DEF NetServerStart, PoolStep, TransportStep, vars, app,
                MT_OnClientConnected_Clients, MT_OnClientConnected_Queue,
                MT_OnClientDisconnected_Queue, MT_OnClientDisconnected_Clients,
                MT_OnDatagramReceived
<1>. QED
    BY <1>1, <1>2, <1>3, <1>4 DEF ServerNext, MainStep, TickStep

(* Each session is announced to the application once, then its bytes arrive   *)
(* in order and complete, then its end at most once, although the reports are *)
(* enqueued by pool threads and handed over by the application thread         *)
(* (NetServer.cs:20-136).                                                     *)
THEOREM ServerImplementsSessions == ServerSpec => SessionsInOrder
BY SessionsInit, ServerStepsSessions, ServerInvariant, PTL
   DEF ServerSpec, SessionsInOrder, Sessions!Spec


-----------------------------------------------------------------------------
(* NetServer starts its transport and never stops it, so reads end without a  *)
(* report only on a connection that was aborted.                              *)
RunInv ==
    /\ ~disposed
    /\ starts # 0 => isRunning
    /\ \A p \in Peers : rd[p] # "none" => starts # 0
    /\ UnreportedOnlyByAbort

(* What the server does to its transport: it never stops it.                  *)
LEMMA ServerNeverStops ==
    ASSUME ServerInv, [ServerNext]_vars
    PROVE  \/ UNCHANGED tvars
           \/ Start /\ starts = 0
           \/ \E c \in Chains : AcceptStep(c) \/ OnClientConnected(c)
           \/ \E p \in Peers : \/ PeerStep(p) \/ ReadStep(p)
                               \/ OnDatagramReceived(p)
                               \/ OnClientDisconnected(p) \/ Disconnect(p)
<1>1. CASE UNCHANGED vars
    BY <1>1 DEF vars, tvars
<1>2. CASE NetServerStart
    BY <1>2 DEF NetServerStart
<1>3. CASE TransportStep
    BY <1>3 DEF TransportStep
<1>4. CASE PoolStep
    BY <1>4 DEF PoolStep, MT_OnClientConnected_Clients,
       MT_OnClientConnected_Queue, MT_OnClientDisconnected_Queue,
       MT_OnClientDisconnected_Clients, MT_OnDatagramReceived
<1>5. CASE MainStep /\ ~NetServerStart
    <2>1. \/ UNCHANGED tvars
          \/ \E s \in Sids : clients[s] # NoPeer /\ Disconnect(clients[s])
        BY <1>5 DEF MainStep, TickStep, CloseStep, TickBegin, TickDequeue,
           TickEnd, AppConnected, AppDisconnected, AppData, AppReply, AppSend,
           AppDisconnect, SendTo, Send, CloseBegin, CloseNext, CloseEnd,
           ServerInv, ToCloseInv
    <2>. QED
        BY <2>1, DictionaryKnown
<1>. QED
    BY <1>1, <1>2, <1>3, <1>4, <1>5 DEF ServerNext

(* An aborted connection stays aborted.                                       *)
LEMMA AbortIsForGood ==
    ASSUME ServerInv, [ServerNext]_vars, NEW p \in Peers, MayThrow(p)
    PROVE  MayThrow(p)'
<1>1. TypeOK /\ BacklogInv /\ OwnedInv
    BY DEF ServerInv, TransportInv, DatagramInv, OwnInv
<1> USE DEF TypeOK, MayThrow, server, accept, network, receive
<1>2. CASE UNCHANGED tvars
    BY <1>2 DEF tvars
<1>3. CASE Start
    BY <1>3 DEF Start
<1>4. ASSUME NEW c \in Chains, AcceptStep(c) \/ OnClientConnected(c)
      PROVE  MayThrow(p)'
    <2>1. CASE EndAccept(c)
        <3>1. link' = link
            BY <2>1 DEF EndAccept
        <3>2. \/ sock' = sock
              \/ /\ link[accPeer[c]] = "reset"
                 /\ sock' = [sock EXCEPT ![accPeer[c]] = "dropped"]
            BY <2>1 DEF EndAccept
        <3>. QED
            BY <1>1, <3>1, <3>2
    <2>2. CASE AcceptCompletes(c)
        BY <1>1, <2>2 DEF AcceptCompletes
    <2>3. CASE ~EndAccept(c) /\ ~AcceptCompletes(c)
        <3>1. UNCHANGED <<link, sock>>
            BY <1>4, <2>3 DEF AcceptStep, EndAborted, GetNewSidRead,
               GetNewSidWrite, GetNewSidReturn, OnClientConnected,
               BeginFirstRead, BeginNextAccept
        <3>. QED
            BY <3>1
    <2>. QED
        BY <2>1, <2>2, <2>3
<1>5. ASSUME NEW q \in Peers, PeerStep(q)
      PROVE  MayThrow(p)'
    <2>1. CASE PeerConnect(q)
        BY <1>1, <2>1 DEF PeerConnect, BacklogInv
    <2>2. CASE PeerSend(q) \/ PeerClose(q) \/ PeerReset(q)
        BY <1>1, <2>2 DEF PeerSend, PeerClose, PeerReset
    <2>. QED
        BY <1>5, <2>1, <2>2 DEF PeerStep
<1>6. ASSUME NEW q \in Peers, \/ ReadStep(q) \/ OnDatagramReceived(q)
                              \/ OnClientDisconnected(q)
      PROVE  MayThrow(p)'
    <2>1. UNCHANGED <<link, sock>>
        BY <1>6 DEF ReadStep, ReadCompletes, ReadEnds, HandleDatagramReceived,
           BeginNextRead, OnDatagramReceived, OnClientDisconnected
    <2>. QED
        BY <2>1
<1>7. ASSUME NEW q \in Peers, Disconnect(q)
      PROVE  MayThrow(p)'
    BY <1>1, <1>7 DEF Disconnect
<1>. QED
    BY <1>2, <1>3, <1>4, <1>5, <1>6, <1>7, ServerNeverStops

(* Every step keeps what is known of a running transport.                     *)
LEMMA RunSteps == ServerInv /\ RunInv /\ [ServerNext]_vars => RunInv'
<1> SUFFICES ASSUME ServerInv, RunInv, [ServerNext]_vars PROVE RunInv'
    OBVIOUS
<1>1. TypeOK /\ ChainInv
    BY DEF ServerInv, ServerTypeOK, TransportInv, SidInv
<1>2. \A p \in Peers : rd[p] = "lost" => MayThrow(p)'
    BY AbortIsForGood DEF RunInv, UnreportedOnlyByAbort
<1> USE DEF TypeOK, RunInv, server, accept, network, receive
<1>3. ASSUME UNCHANGED <<isRunning, disposed, starts, rd>> PROVE RunInv'
    BY <1>2, <1>3 DEF UnreportedOnlyByAbort
<1>4. ASSUME UNCHANGED <<isRunning, disposed, starts>>, starts # 0,
             \A p \in Peers : rd'[p] = "lost" => rd[p] = "lost" \/ MayThrow(p)'
      PROVE  RunInv'
    BY <1>2, <1>4 DEF UnreportedOnlyByAbort
<1>5. CASE UNCHANGED tvars
    BY <1>3, <1>5 DEF tvars
<1>6. CASE Start /\ starts = 0
    <2>1. ~disposed' /\ rd' = rd /\ isRunning' /\ starts' # 0
        <3>1. starts' = starts + 1 /\ UNCHANGED <<disposed, rd>>
              /\ isRunning' = TRUE
            BY <1>6 DEF Start
        <3>. QED
            BY <1>6, <3>1
    <2>. QED
        BY <1>2, <2>1 DEF UnreportedOnlyByAbort
<1>7. ASSUME NEW c \in Chains, AcceptStep(c) \/ OnClientConnected(c)
      PROVE  RunInv'
    <2>1. CASE BeginFirstRead(c)
        <3>1. starts # 0
            <4>1. accPc[c] # "none" /\ starts \in Nat /\ c \in Nat \ {0}
                BY <1>1, <2>1 DEF BeginFirstRead, Chains
            <4>. QED
                BY <1>1, <4>1 DEF ChainInv
        <3>2. UNCHANGED <<isRunning, disposed, starts, link, sock>>
            BY <2>1 DEF BeginFirstRead
        <3>3. \A p \in Peers : rd'[p] = "lost" => rd[p] = "lost" \/ MayThrow(p)
            BY <1>1, <2>1 DEF BeginFirstRead
        <3>. QED
            BY <1>4, <3>1, <3>2, <3>3, AbortIsForGood
    <2>2. CASE ~BeginFirstRead(c)
        <3>1. UNCHANGED <<isRunning, disposed, starts, rd>>
            BY <1>7, <2>2 DEF AcceptStep, AcceptCompletes, EndAccept,
               EndAborted, GetNewSidRead, GetNewSidWrite, GetNewSidReturn,
               OnClientConnected, BeginNextAccept
        <3>. QED
            BY <1>3, <3>1
    <2>. QED
        BY <2>1, <2>2
<1>8. ASSUME NEW q \in Peers, PeerStep(q) \/ Disconnect(q)
      PROVE  RunInv'
    BY <1>3, <1>8 DEF PeerStep, PeerConnect, PeerSend, PeerClose, PeerReset,
                      Disconnect
<1>9. ASSUME NEW q \in Peers, \/ ReadStep(q) \/ OnDatagramReceived(q)
                              \/ OnClientDisconnected(q)
      PROVE  RunInv'
    <2>1. rd[q] # "none" /\ UNCHANGED <<isRunning, disposed, starts>>
        BY <1>9 DEF ReadStep, ReadCompletes, ReadEnds, HandleDatagramReceived,
           BeginNextRead, OnDatagramReceived, OnClientDisconnected
    <2>2. starts # 0 /\ isRunning
        BY <2>1
    <2>3. \A p \in Peers : rd'[p] = "lost" => rd[p] = "lost" \/ MayThrow(p)
        BY <1>1, <1>9, <2>2 DEF ReadStep, ReadCompletes, ReadEnds,
           HandleDatagramReceived, BeginNextRead, OnDatagramReceived,
           OnClientDisconnected
    <2>. QED
        BY <1>4, <2>1, <2>2, <2>3, AbortIsForGood
<1>. QED
    BY <1>5, <1>6, <1>7, <1>8, <1>9, ServerNeverStops

(* The end of a connection goes unreported only if the connection was aborted *)
(* by its peer or by Disconnect (NetFrame.cs:204-232, NetServer.cs:20-27).    *)
THEOREM ServerReportsEnds == ServerSpec => []UnreportedOnlyByAbort
<1>1. ServerInit => RunInv
    BY DEF ServerInit, Init, RunInv, UnreportedOnlyByAbort
<1>2. RunInv => UnreportedOnlyByAbort
    BY DEF RunInv
<1>. QED
    BY <1>1, <1>2, RunSteps, ServerInvariant, PTL DEF ServerSpec

(* The dictionary has a connection under its id exactly from its              *)
(* OnClientConnected to the end of its OnClientDisconnected, and only one     *)
(* that was aborted stays in it for good (NetServer.cs:92-136).               *)
THEOREM ServerDictionary == ServerSpec => []DictionaryFollowsConnections
<1>1. ServerInv /\ UnreportedOnlyByAbort => DictionaryFollowsConnections
    <2> SUFFICES ASSUME ServerInv, UnreportedOnlyByAbort, NEW p \in Peers
                 PROVE  /\ rd[p] \notin {"none", "closed"} => clients[sid[p]] = p
                        /\ rd[p] = "closed" => clients[sid[p]] # p
                        /\ rd[p] = "lost" => MayThrow(p)
        BY DEF DictionaryFollowsConnections
    <2>1. rd[p] \notin {"none", "closed"} => p \in Registered
        BY DEF Registered
    <2>2. ASSUME rd[p] = "closed" PROVE clients[sid[p]] # p
        <3>1. p \notin Registered
            BY <2>2, CallbackOwns DEF Registered, OwnerPcs
        <3>2. sid[p] \in Sids
            BY <2>2, NamesAreUnique DEF Named
        <3>. QED
            BY <3>1, <3>2, TransportAssumption DEF ServerInv, DictionaryInv
    <2>3. rd[p] = "lost" => MayThrow(p)
        BY DEF UnreportedOnlyByAbort
    <2>. QED
        BY <2>1, <2>2, <2>3 DEF ServerInv, DictionaryInv
<1>. QED
    BY <1>1, ServerInvariant, ServerReportsEnds, PTL
=============================================================================
