------------------------ MODULE NetMqPublisher2Proofs ------------------------
(* Messages are accepted in order, once, and before they are answered, for    *)
(* any number of clients and requests.                                        *)
EXTENDS NetMqPublisher2, SequenceTheorems, TLAPS

Message == Clients \X (1..MaxRequests)

(* The socket owes an answer while the listener handles a request.  A request *)
(* under way or being handled is a client's latest, and not a ready one's.    *)
RequestInv ==
    /\ listener \in {"enqueue", "reply"} =>
         current \in Clients /\ ~inflight[current]
    /\ \A c \in Clients :
         \/ inflight[c]
         \/ listener \in {"enqueue", "reply"} /\ current = c
         => client[c] # "ready" /\ number[c] > 0

(* Only earlier requests are accepted when the latest one is not.             *)
AcceptedInv ==
    \A i \in DOMAIN accepted : \A c \in Clients : accepted[i][1] = c =>
        /\ accepted[i][2] <= number[c]
        /\ inflight[c] => accepted[i][2] < number[c]
        /\ listener = "enqueue" /\ current = c => accepted[i][2] < number[c]

(* The listener answers what it has put into the queue.                       *)
ReplyInv ==
    listener = "reply" => Contains(accepted, <<current, number[current]>>)

(* The inductive invariant.                                                   *)
NetMqInv == /\ TypeOK /\ RequestInv /\ AcceptedInv /\ ReplyInv
            /\ MessagesInOrder /\ AnsweredIsAccepted

-----------------------------------------------------------------------------
(* Sequences: delivering the head changes nothing of the whole, and what is   *)
(* put into the queue comes last.                                             *)
LEMMA HeadMoves ==
    ASSUME NEW S, NEW d \in Seq(S), NEW q \in Seq(S), q # <<>>
    PROVE  Append(d, Head(q)) \o Tail(q) = d \o q
  OBVIOUS

(* What is queued is behind all that was accepted before.                     *)
LEMMA LastStaysLast ==
    ASSUME NEW S, NEW d \in Seq(S), NEW q \in Seq(S), NEW m \in S
    PROVE  d \o Append(q, m) = Append(d \o q, m)
  OBVIOUS

(* What a sequence contains it contains with one more message.                *)
LEMMA AppendKeeps ==
    ASSUME NEW S, NEW s \in Seq(S), NEW m \in S, NEW e,
           e = m \/ Contains(s, e)
    PROVE  Contains(Append(s, m), e)
  BY DEF Contains

-----------------------------------------------------------------------------
(* Nothing is accepted at first.                                              *)
LEMMA InitNetMq == Init => NetMqInv
  <1> SUFFICES ASSUME Init PROVE NetMqInv
    OBVIOUS
  <1> USE NetMqAssumption DEF Init
  <1>1. cancelled \in BOOLEAN /\ expired \in BOOLEAN /\ connected \in BOOLEAN
    BY Zenon
  <1>2. inflight \in [Clients -> BOOLEAN]
    BY Zenon
  <1>3. TypeOK
    BY <1>1, <1>2 DEF TypeOK
  <1>4. accepted = <<>>
    BY DEF accepted
  <1> QED BY <1>3, <1>4 DEF NetMqInv, RequestInv, AcceptedInv, ReplyInv,
                            MessagesInOrder, AnsweredIsAccepted

(* What neither receives, accepts nor answers: the clients and what was       *)
(* accepted stay, and the listener is not left with a request.                *)
LEMMA QuietNetMq ==
    ASSUME NetMqInv, TypeOK', UNCHANGED <<current, clients>>,
           accepted' = accepted,
           listener' \in {listener, "check", "receive", "cleanup", "done"}
    PROVE  NetMqInv'
  BY DEF NetMqInv, TypeOK, clients, RequestInv, AcceptedInv, ReplyInv,
         MessagesInOrder, AnsweredIsAccepted

(* Steps of either thread that touch no message.                              *)
LEMMA ThreadsNetMq ==
    ASSUME NetMqInv,
           \/ WatchExpires \/ CheckCancelled \/ Cleanup \/ Start
           \/ TickBegin \/ TickEnd \/ Stop \/ Join
    PROVE  NetMqInv'
  <1> USE DEF NetMqInv, WatchExpires, CheckCancelled, Cleanup, Start,
              TickBegin, TickEnd, Stop, Join
  <1>1. /\ cancelled' \in BOOLEAN /\ expired' \in BOOLEAN
        /\ connected' \in BOOLEAN
    BY Zenon DEF TypeOK
  <1>2. /\ main' \in {"created", "idle", "tick", "join", "stopped"}
        /\ listener' \in {listener, "check", "receive", "cleanup", "done"}
        /\ UNCHANGED <<queue, delivered, current, clients>>
    BY DEF TypeOK
  <1> HIDE DEF WatchExpires, CheckCancelled, Cleanup, Start, TickBegin,
               TickEnd, Stop, Join
  <1>3. TypeOK'
    BY <1>1, <1>2 DEF TypeOK, clients
  <1> QED BY <1>2, <1>3, QuietNetMq DEF accepted

(* The head of the queue moves to the end of what was delivered.              *)
LEMMA DeliverNetMq ==
    ASSUME NetMqInv, TickDeliver
    PROVE  NetMqInv'
  <1> DEFINE M == Message
  <1>1. delivered \in Seq(M) /\ queue \in Seq(M) /\ queue # <<>>
    BY DEF NetMqInv, TypeOK, Message, TickDeliver
  <1>2. accepted' = accepted
    BY <1>1, HeadMoves DEF accepted, TickDeliver
  <1> HIDE DEF M
  <1>3. delivered' \in Seq(M) /\ queue' \in Seq(M)
    BY <1>1 DEF TickDeliver
  <1>4. /\ cancelled' \in BOOLEAN /\ expired' \in BOOLEAN
        /\ connected' \in BOOLEAN
    BY Zenon DEF NetMqInv, TypeOK, TickDeliver
  <1>5. /\ UNCHANGED <<main, listener, current, clients>>
    BY DEF TickDeliver
  <1>6. TypeOK'
    BY <1>3, <1>4, <1>5 DEF M, Message, NetMqInv, TypeOK, clients
  <1> QED BY <1>2, <1>5, <1>6, QuietNetMq

(* The request that is put into the queue is later than all of its client's.  *)
LEMMA EnqueueNetMq ==
    ASSUME NetMqInv, Enqueue
    PROVE  NetMqInv'
  <1> DEFINE M == Message
             m == <<current, number[current]>>
  <1> USE NetMqAssumption
  <1>1. /\ current \in Clients /\ listener = "enqueue"
        /\ number[current] \in 1..MaxRequests
        /\ ~inflight[current]
    BY DEF NetMqInv, TypeOK, RequestInv, Enqueue
  <1>2. m \in M /\ delivered \in Seq(M) /\ queue \in Seq(M)
    BY <1>1 DEF Message, NetMqInv, TypeOK
  <1>3. queue' = Append(queue, m) /\ queue' \in Seq(M)
    <2>1. queue' = Append(queue, m)
      BY DEF Enqueue
    <2> HIDE DEF m, M
    <2> QED BY <1>2, <2>1
  <1>4. accepted' = Append(accepted, m) /\ accepted \in Seq(M)
    <2>1. delivered' = delivered
      BY DEF Enqueue
    <2> HIDE DEF m, M
    <2> QED BY <1>2, <1>3, <2>1, LastStaysLast DEF accepted
  <1>5. /\ cancelled' \in BOOLEAN /\ expired' \in BOOLEAN
        /\ connected' \in BOOLEAN
    BY Zenon DEF NetMqInv, TypeOK, Enqueue
  <1>6. UNCHANGED <<main, delivered, current, clients>> /\ listener' = "reply"
    BY DEF Enqueue
  <1>7. TypeOK'
    BY <1>3, <1>5, <1>6 DEF Message, NetMqInv, TypeOK, clients
  <1>8. RequestInv'
    BY <1>1, <1>6 DEF NetMqInv, RequestInv, clients
  <1>9. \A i \in DOMAIN accepted' :
           \/ i \in DOMAIN accepted /\ accepted'[i] = accepted[i]
           \/ i = Len(accepted) + 1 /\ accepted'[i] = m
    <2> HIDE DEF m, M
    <2> QED BY <1>2, <1>4
  <1>10. AcceptedInv'
    <2>1. UNCHANGED <<current, number, inflight>> /\ listener' # "enqueue"
      BY <1>6 DEF clients
    <2>2. number[current] \in Int /\ m[1] = current /\ m[2] = number[current]
      BY <1>1
    <2> HIDE DEF m
    <2> QED BY <1>1, <1>9, <2>1, <2>2 DEF NetMqInv, AcceptedInv
  <1>11. ReplyInv' /\ AnsweredIsAccepted'
    <2>1. Contains(accepted', m)
      BY <1>2, <1>4, AppendKeeps
    <2>2. \A c \in Clients : answered[c] > 0 =>
             Contains(accepted', <<c, answered[c]>>)
      BY <1>2, <1>4, AppendKeeps DEF NetMqInv, AnsweredIsAccepted
    <2> QED BY <1>6, <2>1, <2>2 DEF ReplyInv, AnsweredIsAccepted, clients
  <1>12. MessagesInOrder'
    <2>1. \A i \in DOMAIN accepted : accepted[i][1] = current =>
             accepted[i][2] < number[current]
      BY <1>1 DEF NetMqInv, AcceptedInv
    <2>2. DOMAIN accepted = 1..Len(accepted) /\ Len(accepted) \in Nat
      BY <1>4
    <2>3. m[1] = current /\ m[2] = number[current]
      OBVIOUS
    <2> HIDE DEF m, M
    <2> QED BY <1>9, <2>1, <2>2, <2>3 DEF NetMqInv, MessagesInOrder
  <1> QED BY <1>7, <1>8, <1>10, <1>11, <1>12 DEF NetMqInv

(* The listener takes a request from the socket and later answers it.         *)
LEMMA ReceiveNetMq ==
    ASSUME NetMqInv, TryReceive
    PROVE  NetMqInv'
  <1> USE NetMqAssumption DEF NetMqInv
  <1>1. /\ cancelled' \in BOOLEAN /\ expired' \in BOOLEAN
        /\ connected' \in BOOLEAN
    BY Zenon DEF TypeOK, TryReceive
  <1>2. /\ UNCHANGED <<main, queue, delivered, number, client, answered>>
        /\ accepted' = accepted /\ listener = "receive"
    BY DEF TryReceive, accepted
  <1>3. CASE listener' = "enqueue"
    <2>1. PICK c \in Clients :
             /\ inflight[c] /\ current' = c
             /\ inflight' = [inflight EXCEPT ![c] = FALSE]
      BY <1>3 DEF TryReceive
    <2>2. inflight' \in [Clients -> BOOLEAN]
      BY <2>1, Zenon DEF TypeOK
    <2>3. TypeOK'
      BY <1>1, <1>2, <1>3, <2>1, <2>2 DEF TypeOK
    <2>4. ~inflight'[c] /\ \A d \in Clients : inflight'[d] => inflight[d]
      BY <2>1 DEF TypeOK
    <2> QED BY <1>2, <1>3, <2>1, <2>3, <2>4
      DEF RequestInv, AcceptedInv, ReplyInv, MessagesInOrder, AnsweredIsAccepted
  <1>4. CASE listener' = "check"
    <2>1. UNCHANGED <<current, inflight>>
      BY <1>4 DEF TryReceive
    <2>2. TypeOK'
      BY <1>1, <1>2, <1>4, <2>1 DEF TypeOK
    <2> QED BY <1>2, <1>4, <2>1, <2>2, QuietNetMq DEF clients
  <1> QED BY <1>3, <1>4 DEF TryReceive

(* The listener answers the client whose message it queued last.              *)
LEMMA ReplyNetMq ==
    ASSUME NetMqInv, Reply
    PROVE  NetMqInv'
  <1> USE NetMqAssumption DEF NetMqInv
  <1>1. /\ cancelled' \in BOOLEAN /\ expired' \in BOOLEAN
        /\ connected' \in BOOLEAN
    BY Zenon DEF TypeOK, Reply
  <1>2. /\ UNCHANGED <<main, queue, delivered, number, inflight>>
        /\ accepted' = accepted /\ listener = "reply" /\ listener' = "check"
        /\ current' = NoClient /\ current \in Clients
    BY DEF Reply, accepted, RequestInv
  <1>3. CASE UNCHANGED <<answered, client>>
    <2>1. TypeOK'
      BY <1>1, <1>2, <1>3 DEF TypeOK
    <2> QED BY <1>2, <1>3, <2>1
      DEF RequestInv, AcceptedInv, ReplyInv, MessagesInOrder, AnsweredIsAccepted
  <1>4. CASE /\ answered' = [answered EXCEPT ![current] = number[current]]
             /\ client' = [client EXCEPT ![current] = "ready"]
    <2>1. TypeOK'
      BY <1>1, <1>2, <1>4 DEF TypeOK
    <2>2. RequestInv' /\ AcceptedInv' /\ ReplyInv' /\ MessagesInOrder'
      BY <1>2, <1>4
        DEF TypeOK, RequestInv, AcceptedInv, ReplyInv, MessagesInOrder
    <2>3. AnsweredIsAccepted'
      BY <1>2, <1>4 DEF TypeOK, ReplyInv, AnsweredIsAccepted
    <2> QED BY <2>1, <2>2, <2>3
  <1> QED BY <1>3, <1>4 DEF Reply

(* Only a ready client sends its next request, which is its latest then.      *)
LEMMA ClientsNetMq ==
    ASSUME NetMqInv, NEW c \in Clients, Request(c) \/ GiveUp(c)
    PROVE  NetMqInv'
  <1> USE NetMqAssumption DEF NetMqInv
  <1>1. /\ cancelled' \in BOOLEAN /\ expired' \in BOOLEAN
        /\ connected' \in BOOLEAN
    BY Zenon DEF TypeOK, Request, GiveUp
  <1>2. /\ UNCHANGED <<main, listener, queue, delivered, current, answered>>
        /\ accepted' = accepted
    BY DEF Request, GiveUp, accepted
  <1>3. inflight' \in [Clients -> BOOLEAN]
    BY Zenon DEF TypeOK, Request, GiveUp
  <1>4. CASE Request(c)
    <2>1. /\ number' = [number EXCEPT ![c] = number[c] + 1]
          /\ client' = [client EXCEPT ![c] = "waiting"]
          /\ client[c] = "ready" /\ number[c] < MaxRequests
          /\ inflight' = [inflight EXCEPT ![c] = TRUE]
      BY <1>4 DEF Request
    <2>2. TypeOK'
      BY <1>1, <1>2, <1>3, <2>1 DEF TypeOK
    <2>3. \A d \in Clients : d # c => /\ inflight'[d] = inflight[d]
                                      /\ number'[d] = number[d]
      BY <2>1 DEF TypeOK
    <2>4. RequestInv'
      BY <1>2, <2>1, <2>3 DEF TypeOK, RequestInv
    <2>5. AcceptedInv'
      <3>1. number[c] \in Int /\ number'[c] = number[c] + 1
        BY <2>1 DEF TypeOK
      <3>2. \A i \in DOMAIN accepted : accepted[i][1] = c =>
               accepted[i][2] <= number[c]
        BY DEF AcceptedInv
      <3>3. \A i \in DOMAIN accepted : accepted[i][1] = c =>
               accepted[i][2] \in Int
        <4>1. accepted \in Seq(Message)
          BY DEF TypeOK, accepted, Message
        <4> QED BY <4>1 DEF Message
      <3> QED BY <1>2, <2>3, <3>1, <3>2, <3>3 DEF AcceptedInv
    <2>6. ReplyInv'
      BY <1>2, <2>1 DEF TypeOK, RequestInv, ReplyInv
    <2> QED BY <1>2, <2>2, <2>4, <2>5, <2>6
      DEF MessagesInOrder, AnsweredIsAccepted
  <1>5. CASE GiveUp(c)
    <2>1. /\ client' = [client EXCEPT ![c] = "closed"]
          /\ number' = number
          /\ inflight' = [inflight EXCEPT ![c] = FALSE] \/ inflight' = inflight
      BY <1>5 DEF GiveUp
    <2>2. TypeOK'
      BY <1>1, <1>2, <1>3, <2>1 DEF TypeOK
    <2>3. \A d \in Clients : inflight'[d] => inflight[d]
      BY <2>1 DEF TypeOK
    <2> QED BY <1>2, <2>1, <2>2, <2>3
      DEF TypeOK, RequestInv, AcceptedInv, ReplyInv, MessagesInOrder,
          AnsweredIsAccepted
  <1> QED BY <1>4, <1>5

(* Every step keeps the invariant.                                            *)
LEMMA StepsNetMq == NetMqInv /\ [Next]_vars => NetMqInv'
  <1> SUFFICES ASSUME NetMqInv, [Next]_vars PROVE NetMqInv'
    OBVIOUS
  <1>1. CASE UNCHANGED vars
    <2>1. UNCHANGED <<current, clients>> /\ accepted' = accepted
          /\ listener' = listener
      BY <1>1 DEF vars, clients, accepted
    <2>2. TypeOK'
      BY <1>1 DEF vars, NetMqInv, TypeOK
    <2> QED BY <2>1, <2>2, QuietNetMq
  <1> QED BY <1>1, ThreadsNetMq, DeliverNetMq, EnqueueNetMq, ReceiveNetMq,
             ReplyNetMq, ClientsNetMq
          DEF Next, ListenerStep, MainStep, TickStep

(* So it always holds.                                                        *)
LEMMA NetMqInvariant == Spec => []NetMqInv
  BY InitNetMq, StepsNetMq, PTL DEF Spec

-----------------------------------------------------------------------------
(* Every variable of the publisher keeps its type: what is queued is a        *)
(* request some client has made.                                              *)
THEOREM NetMqTyped == Spec => []TypeOK
  BY NetMqInvariant, PTL DEF NetMqInv

(* The application gets the messages of every client in the order of its      *)
(* requests and none twice, for any number of clients and requests, although  *)
(* clients give up waiting and the listener works on while Tick runs.         *)
THEOREM NetMqInOrder == Spec => []MessagesInOrder
  BY NetMqInvariant, PTL DEF NetMqInv

(* No client gets an answer to a message that is not in the queue or          *)
(* delivered.                                                                 *)
THEOREM NetMqAnswersAccepted == Spec => []AnsweredIsAccepted
  BY NetMqInvariant, PTL DEF NetMqInv
=============================================================================
