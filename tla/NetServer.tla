------------------------------ MODULE NetServer ------------------------------
(* TestRayTrace.unity/Assets/Net/NetServer.cs on top of AsyncTcpServer, used  *)
(* by one application thread the way Server.cs and TestTcpServer.cs use it.   *)
(*                                                                            *)
(* Pool threads run the MT_ callbacks; each takes lock(clients) and           *)
(* lock(dataQueue) one after the other, never both, and other threads run in  *)
(* between.  A critical section in which the thread waits for nothing is one  *)
(* action; the two longer ones, both of the application thread, are spread    *)
(* over steps: Tick keeps lock(dataQueue) while it calls the application,     *)
(* Close keeps lock(clients) while it goes through the sessions.              *)
EXTENDS AsyncTcpServer, Sequences

CONSTANTS MaxCloses   \* bound: calls of Close

ASSUME NetServerAssumption == MaxCloses \in Nat

VARIABLES
    dataQueue,  \* the events for the application thread
    clients,    \* Dictionary: session id -> connection, NoPeer if absent
    half,       \* connections whose MT_ callback has left its first section
    mainPc,     \* where the application thread is
    evt,        \* the event Tick hands over, NoEvent when there is none
    toClose,    \* sessions Close has yet to disconnect
    closes,     \* calls of Close so far
    list,       \* Server.clients: session id -> how often it is in the list
    stage,      \* history: session id -> what the application was told of it
    upto        \* history: session id -> bytes the application was given

app == <<mainPc, evt, toClose, closes, list, stage, upto>>
vars == <<isRunning, disposed, listening, lastSid, starts, accPc, accPeer,
          tmpSid, link, sock, sent, taken, buf, got, rd, sid,
          dataQueue, clients, half, mainPc, evt, toClose, closes, list,
          stage, upto>>

Event(t, s, first, end) == [type |-> t, sid |-> s, from |-> first, upto |-> end]
NoEvent == Event("None", 0, 1, 0)
Events == [type : {"None", "Connect", "Data", "Disconnect"}, sid : 0..MaxSid,
           from : 0..(MaxBytes + 1), upto : 0..MaxBytes]

ServerInit ==
    /\ Init
    /\ dataQueue = <<>>
    /\ clients = [s \in Sids |-> NoPeer]
    /\ half = {}
    /\ mainPc = "idle"
    /\ evt = NoEvent
    /\ toClose = {}
    /\ closes = 0
    /\ list = [s \in Sids |-> 0]
    /\ stage = [s \in Sids |-> "unseen"]
    /\ upto = [s \in Sids |-> 0]

(* lock(dataQueue) and lock(clients) are free for a pool thread.              *)
QueueFree == mainPc \notin {"tick", "callback", "reply"}
ClientsFree == mainPc # "close"

-----------------------------------------------------------------------------
(* The callbacks, on the thread of the accept or read chain that calls them.  *)

MT_OnClientConnected_Clients(c) ==
    /\ accPc[c] = "connected"
    /\ accPeer[c] \notin half
    /\ ClientsFree
    /\ clients' = [clients EXCEPT ![sid[accPeer[c]]] = accPeer[c]]
    /\ half' = half \cup {accPeer[c]}
    /\ UNCHANGED <<tvars, dataQueue, app>>

(* Mutant: the Connect event does not wait for the dictionary entry.          *)
ConnectedQueueFirst(c) ==
    /\ QueueFree
    /\ OnClientConnected(c)
    /\ dataQueue' = Append(dataQueue, Event("Connect", sid[accPeer[c]], 1, 0))
    /\ half' = half \ {accPeer[c]}
    /\ UNCHANGED <<clients, app>>

MT_OnClientConnected_Queue(c) ==
    /\ accPeer[c] \in half
    /\ QueueFree
    /\ OnClientConnected(c)
    /\ dataQueue' = Append(dataQueue, Event("Connect", sid[accPeer[c]], 1, 0))
    /\ half' = half \ {accPeer[c]}
    /\ UNCHANGED <<clients, app>>

MT_OnClientDisconnected_Queue(p) ==
    /\ rd[p] = "gone"
    /\ p \notin half
    /\ QueueFree
    /\ dataQueue' = Append(dataQueue, Event("Disconnect", sid[p], 1, 0))
    /\ half' = half \cup {p}
    /\ UNCHANGED <<tvars, clients, app>>

(* Mutant: Remove is given a stale id, the newest one.                        *)
DisconnectedNewest(p) ==
    /\ p \in half
    /\ ClientsFree
    /\ OnClientDisconnected(p)
    /\ clients' = [clients EXCEPT ![lastSid] = NoPeer]
    /\ half' = half \ {p}
    /\ UNCHANGED <<dataQueue, app>>

MT_OnClientDisconnected_Clients(p) ==
    /\ p \in half
    /\ ClientsFree
    /\ OnClientDisconnected(p)
    /\ clients' = [clients EXCEPT ![sid[p]] = NoPeer]
    /\ half' = half \ {p}
    /\ UNCHANGED <<dataQueue, app>>

(* Mutant: the event carries the whole buffer.                                *)
DatagramWholeBuffer(p) ==
    /\ QueueFree
    /\ OnDatagramReceived(p)
    /\ dataQueue' = Append(dataQueue,
            Event("Data", sid[p], buf[p].from, buf[p].from + BufLen - 1))
    /\ UNCHANGED <<clients, half, app>>

MT_OnDatagramReceived(p) ==
    /\ QueueFree
    /\ OnDatagramReceived(p)
    /\ dataQueue' = Append(dataQueue,
                           Event("Data", sid[p], buf[p].from, buf[p].upto))
    /\ UNCHANGED <<clients, half, app>>

-----------------------------------------------------------------------------
(* The application thread.                                                    *)

(* NetServer.Start sets the callbacks, then starts the transport.             *)
NetServerStart ==
    /\ mainPc = "idle"
    /\ starts = 0
    /\ Start
    /\ UNCHANGED <<dataQueue, clients, half, app>>

(* Tick with an empty queue changes nothing.                                  *)
TickBegin ==
    /\ mainPc = "idle"
    /\ dataQueue # <<>>
    /\ mainPc' = "tick"
    /\ UNCHANGED <<tvars, dataQueue, clients, half, evt, toClose, closes, list,
                   stage, upto>>

TickDequeue ==
    /\ mainPc = "tick"
    /\ dataQueue # <<>>
    /\ LET e == Head(dataQueue) IN
         /\ evt' = e
         /\ stage' = [stage EXCEPT ![e.sid] =
                        CASE e.type = "Connect" -> "open"
                          [] e.type = "Disconnect" -> "closed"
                          [] OTHER -> @]
         /\ upto' = [upto EXCEPT ![e.sid] = IF e.type = "Data" THEN e.upto
                                                               ELSE @]
    /\ dataQueue' = Tail(dataQueue)
    /\ mainPc' = "callback"
    /\ UNCHANGED <<tvars, clients, half, toClose, closes, list>>

TickEnd ==
    /\ mainPc = "tick"
    /\ dataQueue = <<>>
    /\ mainPc' = "idle"
    /\ UNCHANGED <<tvars, dataQueue, clients, half, evt, toClose, closes, list,
                   stage, upto>>

(* Server.OnClientConnected and Server.OnClientDisconnected: List.Add, and    *)
(* List.Remove of one occurrence.                                             *)
AppConnected ==
    /\ mainPc = "callback"
    /\ evt.type = "Connect"
    /\ list' = [list EXCEPT ![evt.sid] = @ + 1]
    /\ mainPc' = "tick"
    /\ evt' = NoEvent
    /\ UNCHANGED <<tvars, dataQueue, clients, half, toClose, closes,
                   stage, upto>>

(* Mutant: the list keeps the session.                                        *)
AppDisconnectedKeeps ==
    /\ mainPc = "callback"
    /\ evt.type = "Disconnect"
    /\ mainPc' = "tick"
    /\ evt' = NoEvent
    /\ UNCHANGED <<tvars, dataQueue, clients, half, toClose, closes, list,
                   stage, upto>>

AppDisconnected ==
    /\ mainPc = "callback"
    /\ evt.type = "Disconnect"
    /\ list' = [list EXCEPT ![evt.sid] = IF @ = 0 THEN 0 ELSE @ - 1]
    /\ mainPc' = "tick"
    /\ evt' = NoEvent
    /\ UNCHANGED <<tvars, dataQueue, clients, half, toClose, closes,
                   stage, upto>>

(* Mutant: an exception in the callback loses the rest of the queue.          *)
AppDataClears ==
    /\ mainPc = "callback"
    /\ evt.type = "Data"
    /\ \/ mainPc' = "tick" /\ evt' = NoEvent /\ UNCHANGED dataQueue
       \/ mainPc' = "idle" /\ evt' = NoEvent /\ dataQueue' = <<>>
       \/ mainPc' = "reply" /\ UNCHANGED <<evt, dataQueue>>
    /\ UNCHANGED <<tvars, clients, half, toClose, closes, list, stage, upto>>

(* OnDataReceived: Server's Unpack may throw, which leaves Tick with the rest *)
(* of the queue in place; TestTcpServer answers.                              *)
AppData ==
    /\ mainPc = "callback"
    /\ evt.type = "Data"
    /\ \/ mainPc' \in {"tick", "idle"} /\ evt' = NoEvent
       \/ mainPc' = "reply" /\ UNCHANGED evt
    /\ UNCHANGED <<tvars, dataQueue, clients, half, toClose, closes, list,
                   stage, upto>>

(* NetServer.Send: nothing for an unknown session, else the transport's Send, *)
(* which throws when the connection is gone.                                  *)
SendTo(s) ==
    IF clients[s] = NoPeer THEN UNCHANGED tvars ELSE Send(clients[s])

SendThrows(s) == clients[s] # NoPeer /\ MayThrow(clients[s])

AppReply ==
    /\ mainPc = "reply"
    /\ \/ SendTo(evt.sid) /\ mainPc' = "tick"
       \/ /\ SendThrows(evt.sid)
          /\ mainPc' = "idle"
          /\ UNCHANGED tvars
    /\ evt' = NoEvent
    /\ UNCHANGED <<dataQueue, clients, half, toClose, closes, list, stage, upto>>

(* Between two Ticks: Server.Send, NetServer.Disconnect and NetServer.Close.  *)
AppSend(s) ==
    /\ mainPc = "idle"
    /\ SendTo(s)
    /\ UNCHANGED <<dataQueue, clients, half, mainPc, evt, toClose, closes,
                   list, stage, upto>>

AppDisconnect(s) ==
    /\ mainPc = "idle"
    /\ clients[s] # NoPeer
    /\ Disconnect(clients[s])
    /\ UNCHANGED <<dataQueue, clients, half, app>>

CloseBegin ==
    /\ mainPc = "idle"
    /\ closes < MaxCloses
    /\ toClose' = {s \in Sids : clients[s] # NoPeer}
    /\ closes' = closes + 1
    /\ mainPc' = "close"
    /\ UNCHANGED <<tvars, dataQueue, clients, half, evt, list, stage,
                   upto>>

(* One iteration of the foreach; a session that is no longer connected throws *)
(* and leaves the sessions after it as they are.                              *)
CloseNext(s) ==
    /\ mainPc = "close"
    /\ s \in toClose
    /\ \/ /\ Disconnect(clients[s])
          /\ toClose' = toClose \ {s}
          /\ UNCHANGED mainPc
       \/ /\ MayThrow(clients[s])
          /\ toClose' = {}
          /\ mainPc' = "idle"
          /\ UNCHANGED tvars
    /\ UNCHANGED <<dataQueue, clients, half, evt, closes, list, stage,
                   upto>>

CloseEnd ==
    /\ mainPc = "close"
    /\ toClose = {}
    /\ mainPc' = "idle"
    /\ UNCHANGED <<tvars, dataQueue, clients, half, evt, toClose, closes, list,
                   stage, upto>>

-----------------------------------------------------------------------------
PoolStep ==
    \/ \E c \in Chains : \/ MT_OnClientConnected_Clients(c)
                         \/ MT_OnClientConnected_Queue(c)
    \/ \E p \in Peers : \/ MT_OnClientDisconnected_Queue(p)
                        \/ MT_OnClientDisconnected_Clients(p)
                        \/ MT_OnDatagramReceived(p)

TickStep == \/ TickBegin \/ TickDequeue \/ TickEnd
            \/ AppConnected \/ AppDisconnected \/ AppData \/ AppReply

CloseStep == CloseEnd \/ \E s \in Sids : CloseNext(s)

MainStep == \/ NetServerStart
            \/ TickStep
            \/ CloseStep
            \/ CloseBegin
            \/ \E s \in Sids : AppSend(s) \/ AppDisconnect(s)

TransportStep ==
    /\ \/ \E c \in Chains : AcceptStep(c)
       \/ \E p \in Peers : PeerStep(p) \/ ReadStep(p)
    /\ UNCHANGED <<dataQueue, clients, half, app>>

ServerNext == MainStep \/ PoolStep \/ TransportStep

ServerSpec == ServerInit /\ [][ServerNext]_vars

-----------------------------------------------------------------------------
(* Every variable has its type.                                               *)
ServerTypeOK ==
    /\ TypeOK
    /\ dataQueue \in Seq(Events)
    /\ clients \in [Sids -> Peers \cup {NoPeer}]
    /\ half \in SUBSET Peers
    /\ mainPc \in {"idle", "tick", "callback", "reply", "close"}
    /\ evt \in Events
    /\ toClose \in SUBSET Sids
    /\ closes \in 0..MaxCloses
    /\ list \in [Sids -> Nat]
    /\ stage \in [Sids -> {"unseen", "open", "closed"}]
    /\ upto \in [Sids -> 0..MaxBytes]

-----------------------------------------------------------------------------
(* What the application sees is an execution of SessionEvents.                *)
Sessions == INSTANCE SessionEvents
            WITH Sessions <- Sids, MaxData <- MaxBytes, now <- evt

(* Each session is announced once, then its bytes reach the application       *)
(* in order and complete, then its end is reported at most once (NetServer.cs *)
(* enqueues from pool threads, Tick hands over on the application thread).    *)
SessionsInOrder == Sessions!Spec

Queued(t, s) == \E i \in DOMAIN dataQueue : /\ dataQueue[i].type = t
                                            /\ dataQueue[i].sid = s

(* As long as a session is open for the application and its end is not        *)
(* waiting in the queue, NetServer.Send finds it: the dictionary has it       *)
(* before its Connect is enqueued and keeps it until after its Disconnect.    *)
OpenSessionsAreKnown ==
    \A s \in Sids : stage[s] = "open" /\ ~Queued("Disconnect", s)
                        => clients[s] # NoPeer

(* From its OnClientConnected to the end of its OnClientDisconnected a        *)
(* connection is what the dictionary has under its session id, so bytes for a *)
(* session never go to another connection.  One whose reads ended without a   *)
(* report ("lost") stays in the dictionary for good, but that happens only to *)
(* a connection that its peer or Disconnect has aborted: no exception outside *)
(* the try blocks and nothing else ends the reads of any other one silently.  *)
DictionaryFollowsConnections ==
    \A p \in Peers :
        /\ rd[p] \notin {"none", "closed"} => clients[sid[p]] = p
        /\ rd[p] = "closed" => clients[sid[p]] # p
        /\ rd[p] = "lost" => MayThrow(p)

(* Server.clients has every open session exactly once and no other, whatever  *)
(* exceptions have left Tick, except while Tick is calling Server.            *)
ListHasOpenSessions ==
    mainPc # "callback" =>
        \A s \in Sids : list[s] = IF stage[s] = "open" THEN 1 ELSE 0

(* The end of a connection goes unreported only if the connection was aborted *)
(* by its peer or by Disconnect: NetServer never stops its transport.         *)
UnreportedOnlyByAbort == \A p \in Peers : rd[p] = "lost" => MayThrow(p)

-----------------------------------------------------------------------------
(* Fairness.  Posted operations complete, the pool runs every callback to its *)
(* end (locks are released, see README), Unity calls Tick every frame, and    *)
(* Tick and Close, once begun, go on.                                         *)
Transport(A) == A /\ UNCHANGED <<dataQueue, clients, half, app>>

Fairness ==
    /\ \A c \in Chains : /\ WF_vars(Transport(AcceptStep(c)))
                         /\ WF_vars(MT_OnClientConnected_Clients(c))
                         /\ WF_vars(MT_OnClientConnected_Queue(c))
    /\ \A p \in Peers : /\ WF_vars(Transport(ReadStep(p)))
                        /\ WF_vars(MT_OnClientDisconnected_Queue(p))
                        /\ WF_vars(MT_OnClientDisconnected_Clients(p))
                        /\ WF_vars(MT_OnDatagramReceived(p))
    /\ WF_vars(TickStep)
    /\ WF_vars(CloseStep)

FairServerSpec == ServerSpec /\ Fairness

(* A connection that got its session and that its peer closes after sending,  *)
(* without ever being aborted, is handed to the application down to its last  *)
(* byte, and then its end.                                                    *)
GracefulCloseIsReported ==
    \A p \in Peers :
        [](~MayThrow(p)) =>
            [](sid[p] # 0 /\ link[p] = "closed" =>
               <>(\E s \in Sids : /\ s = sid[p]
                                  /\ stage[s] = "closed"
                                  /\ upto[s] = sent[p]
                                  /\ list[s] = 0))

(* If no connection is ever aborted, every connection in the backlog gets a   *)
(* session and the application hears of it.                                   *)
EveryConnectionIsServed ==
    [](\A q \in Peers : ~MayThrow(q)) =>
        \A p \in Peers : sock[p] = "queued" ~>
            \E s \in Sids : s = sid[p] /\ stage[s] # "unseen"

(* A running server is waiting for the next connection or handling one.       *)
(* NetFrame.cs:109-112 documents IsRunning as "is the server running".        *)
RunningServerAccepts ==
    isRunning => \E c \in Chains : accPc[c] \in LivePcs
=============================================================================
