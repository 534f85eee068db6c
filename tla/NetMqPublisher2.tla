--------------------------- MODULE NetMqPublisher2 ---------------------------
(* TestRayTrace.unity/Assets/Net/TestNetMQ.cs: a listener thread answers the  *)
(* requests of REQ clients on one REP socket and puts their messages into a   *)
(* queue; Unity's main thread empties the queue in Update and stops the       *)
(* thread in OnDestroy.                                                       *)
EXTENDS Integers, Sequences, SequencesExt

CONSTANTS Clients,    \* REQ sockets that talk to the server
          NoClient,
          MaxRequests \* bound: requests of one client

ASSUME NetMqAssumption == NoClient \notin Clients /\ MaxRequests \in Nat

VARIABLES
    main,       \* where Unity's main thread is
    listener,   \* where the listener thread is
    cancelled,  \* _listenerCancelled
    queue,      \* messageQueue, of <<client, number>>
    delivered,  \* history: what _messageDelegate was called with
    expired,    \* _contactWatch has passed ContactThreshold
    connected,  \* Connected
    current,    \* the client the REP socket owes an answer
    number,     \* client -> its latest request
    client,     \* client -> "ready", "waiting" for an answer or "closed"
    inflight,   \* client -> its latest request has not been received yet
    answered    \* client -> its latest request that got an "ok"

vars == <<main, listener, cancelled, queue, delivered, expired, connected,
          current, number, client, inflight, answered>>

clients == <<number, client, inflight, answered>>

Init ==
    /\ main = "created"
    /\ listener = "unstarted"
    /\ cancelled = FALSE
    /\ queue = <<>>
    /\ delivered = <<>>
    /\ expired = FALSE
    /\ connected = FALSE
    /\ current = NoClient
    /\ number = [c \in Clients |-> 0]
    /\ client = [c \in Clients |-> "ready"]
    /\ inflight = [c \in Clients |-> FALSE]
    /\ answered = [c \in Clients |-> 0]

-----------------------------------------------------------------------------
(* A REQ client sends one request at a time.  It may give up waiting and      *)
(* close; its request may still be received then, or be lost.                 *)
Request(c) ==
    /\ client[c] = "ready"
    /\ number[c] < MaxRequests
    /\ number' = [number EXCEPT ![c] = @ + 1]
    /\ client' = [client EXCEPT ![c] = "waiting"]
    /\ inflight' = [inflight EXCEPT ![c] = TRUE]
    /\ UNCHANGED <<main, listener, cancelled, queue, delivered, expired,
                   connected, current, answered>>

GiveUp(c) ==
    /\ client[c] = "waiting"
    /\ client' = [client EXCEPT ![c] = "closed"]
    /\ inflight' = [inflight EXCEPT ![c] = FALSE] \/ UNCHANGED inflight
    /\ UNCHANGED <<main, listener, cancelled, queue, delivered, expired,
                   connected, current, number, answered>>

-----------------------------------------------------------------------------
(* ListenerWork.                                                              *)

(* The stopwatch is started in the constructor and never reset: the later     *)
(* calls of Start on the running stopwatch do nothing.                        *)
WatchExpires ==
    /\ main # "created"
    /\ ~expired
    /\ expired' = TRUE
    /\ UNCHANGED <<main, listener, cancelled, queue, delivered, connected,
                   current, clients>>

CheckCancelled ==
    /\ listener = "check"
    /\ listener' = IF cancelled THEN "cleanup" ELSE "receive"
    /\ connected' = IF cancelled THEN connected ELSE ~expired
    /\ UNCHANGED <<main, cancelled, queue, delivered, expired, current, clients>>

(* Mutant: a receive that blocks until there is a request.                    *)
BlockingReceive ==
    /\ listener = "receive"
    /\ \E c \in Clients : /\ inflight[c]
                          /\ current' = c
                          /\ inflight' = [inflight EXCEPT ![c] = FALSE]
    /\ listener' = "enqueue"
    /\ UNCHANGED <<main, cancelled, queue, delivered, expired, connected,
                   number, client, answered>>

(* TryReceiveFrameString does not wait: it finds a request that was sent, or  *)
(* nothing, also while one is still on its way.                               *)
TryReceive ==
    /\ listener = "receive"
    /\ \/ /\ \E c \in Clients :
                /\ inflight[c]
                /\ current' = c
                /\ inflight' = [inflight EXCEPT ![c] = FALSE]
          /\ listener' = "enqueue"
       \/ /\ listener' = "check"
          /\ UNCHANGED <<current, inflight>>
    /\ UNCHANGED <<main, cancelled, queue, delivered, expired, connected,
                   number, client, answered>>

(* Mutant: the answer is sent before the message is in the queue.             *)
ReplyFirst ==
    /\ listener = "enqueue"
    /\ \/ /\ client[current] = "waiting"
          /\ answered' = [answered EXCEPT ![current] = number[current]]
          /\ client' = [client EXCEPT ![current] = "ready"]
       \/ client[current] = "closed" /\ UNCHANGED <<answered, client>>
    /\ current' = NoClient
    /\ listener' = "check"
    /\ UNCHANGED <<main, cancelled, queue, delivered, expired, connected,
                   number, inflight>>

(* Mutant: the event carries the number of the answer before.                 *)
EnqueueAnswered ==
    /\ listener = "enqueue"
    /\ main # "tick"
    /\ queue' = Append(queue, <<current, answered[current]>>)
    /\ listener' = "reply"
    /\ UNCHANGED <<main, cancelled, delivered, expired, connected, current,
                   clients>>

(* OnReceiveMessage_Thread waits for the lock that Tick holds.                *)
Enqueue ==
    /\ listener = "enqueue"
    /\ main # "tick"
    /\ queue' = Append(queue, <<current, number[current]>>)
    /\ listener' = "reply"
    /\ UNCHANGED <<main, cancelled, delivered, expired, connected, current,
                   clients>>

(* SendFrame; an answer to a client that has closed is dropped.               *)
Reply ==
    /\ listener = "reply"
    /\ \/ /\ client[current] = "waiting"
          /\ answered' = [answered EXCEPT ![current] = number[current]]
          /\ client' = [client EXCEPT ![current] = "ready"]
       \/ client[current] = "closed" /\ UNCHANGED <<answered, client>>
    /\ current' = NoClient
    /\ listener' = "check"
    /\ UNCHANGED <<main, cancelled, queue, delivered, expired, connected,
                   number, inflight>>

(* The socket is disposed and NetMQ cleaned up; the thread ends.              *)
Cleanup ==
    /\ listener = "cleanup"
    /\ listener' = "done"
    /\ UNCHANGED <<main, cancelled, queue, delivered, expired, connected,
                   current, clients>>

-----------------------------------------------------------------------------
(* Unity's main thread: Start, Update with Tick, OnDestroy with Stop.         *)
Start ==
    /\ main = "created"
    /\ cancelled' = FALSE
    /\ listener' = "check"
    /\ main' = "idle"
    /\ UNCHANGED <<queue, delivered, expired, connected, current, clients>>

(* Mutant: Update ticks only while Connected.                                 *)
TickBeginConnected ==
    /\ main = "idle"
    /\ connected
    /\ queue # <<>>
    /\ main' = "tick"
    /\ UNCHANGED <<listener, cancelled, queue, delivered, expired, connected,
                   current, clients>>

TickBegin ==
    /\ main = "idle"
    /\ queue # <<>>
    /\ main' = "tick"
    /\ UNCHANGED <<listener, cancelled, queue, delivered, expired, connected,
                   current, clients>>

(* Mutant: a handler that throws leaves its message in the queue.             *)
TickPeek ==
    /\ main = "tick"
    /\ queue # <<>>
    /\ delivered' = Append(delivered, Head(queue))
    /\ \/ queue' = Tail(queue) /\ UNCHANGED main
       \/ UNCHANGED queue /\ main' = "idle" /\ Len(delivered) < 3
    /\ UNCHANGED <<listener, cancelled, expired, connected, current, clients>>

TickDeliver ==
    /\ main = "tick"
    /\ queue # <<>>
    /\ delivered' = Append(delivered, Head(queue))
    /\ queue' = Tail(queue)
    /\ UNCHANGED <<main, listener, cancelled, expired, connected, current,
                   clients>>

TickEnd ==
    /\ main = "tick"
    /\ queue = <<>>
    /\ main' = "idle"
    /\ UNCHANGED <<listener, cancelled, queue, delivered, expired, connected,
                   current, clients>>

Stop ==
    /\ main = "idle"
    /\ cancelled' = TRUE
    /\ main' = "join"
    /\ UNCHANGED <<listener, queue, delivered, expired, connected, current,
                   clients>>

Join ==
    /\ main = "join"
    /\ listener = "done"
    /\ main' = "stopped"
    /\ UNCHANGED <<listener, cancelled, queue, delivered, expired, connected,
                   current, clients>>

-----------------------------------------------------------------------------
ListenerStep == \/ CheckCancelled \/ TryReceive \/ Enqueue \/ Reply \/ Cleanup
TickStep == TickBegin \/ TickDeliver \/ TickEnd
MainStep == Start \/ TickStep \/ Stop \/ Join

Next == \/ ListenerStep \/ MainStep \/ WatchExpires
        \/ \E c \in Clients : Request(c) \/ GiveUp(c)

Spec == Init /\ [][Next]_vars

(* The listener polls, Update runs every frame, Join returns when it can.     *)
FairSpec == Spec /\ WF_vars(ListenerStep) /\ WF_vars(TickStep) /\ WF_vars(Join)

-----------------------------------------------------------------------------
(* Every variable has its type.                                               *)
TypeOK ==
    /\ main \in {"created", "idle", "tick", "join", "stopped"}
    /\ listener \in {"unstarted", "check", "receive", "enqueue", "reply",
                     "cleanup", "done"}
    /\ cancelled \in BOOLEAN
    /\ queue \in Seq(Clients \X (1..MaxRequests))
    /\ delivered \in Seq(Clients \X (1..MaxRequests))
    /\ expired \in BOOLEAN
    /\ connected \in BOOLEAN
    /\ current \in Clients \cup {NoClient}
    /\ number \in [Clients -> 0..MaxRequests]
    /\ client \in [Clients -> {"ready", "waiting", "closed"}]
    /\ inflight \in [Clients -> BOOLEAN]
    /\ answered \in [Clients -> 0..MaxRequests]

(* What the application has got and what waits for it, in this order.         *)
accepted == delivered \o queue

(* The messages of a client reach the application in the order of its         *)
(* requests and none of them twice, also when it gave up on some of them.     *)
MessagesInOrder ==
    \A i, j \in DOMAIN accepted :
        i < j /\ accepted[i][1] = accepted[j][1]
            => accepted[i][2] < accepted[j][2]

(* A request that was answered is in the queue or delivered.                  *)
AnsweredIsAccepted ==
    \A c \in Clients : answered[c] > 0 =>
        Contains(accepted, <<c, answered[c]>>)

(* OnDestroy returns: the listener notices the flag, also when it was waiting *)
(* for the queue or owed an answer.                                           *)
StopReturns == main = "join" ~> main = "stopped"

(* What was answered is delivered, unless the application stops first; then   *)
(* the messages still in the queue are never delivered.                       *)
AnsweredIsDelivered ==
    \A c \in Clients : \A n \in 1..MaxRequests :
        answered[c] = n ~> \/ Contains(delivered, <<c, n>>)
                           \/ main \in {"join", "stopped"}
=============================================================================
