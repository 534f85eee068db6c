---------------------------- MODULE TcpServerProofs ----------------------------
(* TypeOK and OneOpenConnection hold for any number of clients and messages.  *)
EXTENDS TcpServer, TLAPS

(* While the worker serves a client it has one.                               *)
ServesInv ==
    worker \in {"greet", "receive", "echo"} => clientSocket \in Clients

(* The greeting comes first, then an echo for every message received.         *)
RepliesInv ==
    /\ \A c \in Clients :
         /\ received[c] <= sent[c]
         /\ replies[c] <= received[c] + 1
         /\ peer[c] = "none" => sock[c] = "none"
         /\ sock[c] \in {"none", "backlog"} => replies[c] = 0
    /\ worker = "greet" => replies[clientSocket] = 0
    /\ worker = "echo" => replies[clientSocket] <= received[clientSocket]

(* The old connection is closed before the next one is accepted.              *)
AcceptInv == worker = "accept" => \A c \in Clients : sock[c] # "open"

(* The inductive invariant.                                                   *)
TcpInv == TypeOK /\ ServesInv /\ RepliesInv /\ AcceptInv /\ OneOpenConnection

(* Nothing is open at first.                                                  *)
LEMMA InitTcp == Init => TcpInv
  <1> SUFFICES ASSUME Init PROVE TcpInv
    OBVIOUS
  <1> USE TcpServerAssumption DEF Init
  <1>1. aborted \in BOOLEAN /\ serverOpen \in BOOLEAN
    BY Zenon
  <1>2. TypeOK
    BY <1>1 DEF TypeOK
  <1> QED BY <1>2
    DEF TcpInv, ServesInv, RepliesInv, AcceptInv, OneOpenConnection

-----------------------------------------------------------------------------
(* What a client does opens no socket and answers nothing.                    *)
LEMMA ClientTcp ==
    ASSUME TcpInv, NEW c \in Clients, ClientStep(c)
    PROVE  TcpInv'
  <1> USE TcpServerAssumption
  <1>1. CASE ClientConnects(c)
    <2> USE <1>1 DEF TcpInv, TypeOK, ClientConnects, main, conn
    <2>1. sock' = [sock EXCEPT ![c] = "backlog"]
      OBVIOUS
    <2>2. aborted' \in BOOLEAN /\ serverOpen' \in BOOLEAN
      BY Zenon
    <2>3. TypeOK'
      BY <2>2
    <2>4. peer' = [peer EXCEPT ![c] = "open"] /\ peer[c] = "none"
      OBVIOUS
    <2> QED BY <2>1, <2>3, <2>4
      DEF ServesInv, RepliesInv, AcceptInv, OneOpenConnection
  <1>2. CASE ClientSends(c)
    <2> USE <1>2 DEF TcpInv, TypeOK, ClientSends, main
    <2>1. sent' = [sent EXCEPT ![c] = sent[c] + 1] /\ sent[c] < MaxMessages
      OBVIOUS
    <2>2. aborted' \in BOOLEAN /\ serverOpen' \in BOOLEAN
      BY Zenon
    <2>3. TypeOK'
      BY <2>1, <2>2
    <2> QED BY <2>1, <2>3
      DEF ServesInv, RepliesInv, AcceptInv, OneOpenConnection
  <1>3. CASE ClientCloses(c) \/ ClientResets(c)
    <2> USE <1>3 DEF TcpInv, TypeOK, ClientCloses, ClientResets, main, conn
    <2>1. PICK p \in {"closed", "reset"} :
             peer' = [peer EXCEPT ![c] = p] /\ peer[c] # "none"
      OBVIOUS
    <2>2. aborted' \in BOOLEAN /\ serverOpen' \in BOOLEAN
      BY Zenon
    <2>3. TypeOK'
      BY <2>1, <2>2
    <2> QED BY <2>1, <2>3
      DEF ServesInv, RepliesInv, AcceptInv, OneOpenConnection
  <1> QED BY <1>1, <1>2, <1>3 DEF ClientStep

(* The worker: the old client is closed first, the new one greeted first.     *)
LEMMA WorkerTcp ==
    ASSUME TcpInv, WorkerStep \/ AbortTakesEffect \/ InitSocket
    PROVE  TcpInv'
  <1> USE TcpServerAssumption DEF TcpInv
  <1>1. aborted' \in BOOLEAN /\ serverOpen' \in BOOLEAN
    BY Zenon DEF TypeOK, WorkerStep, CloseOld, Accept, AcceptThrows, SocketSend,
       ReceiveMessage, ReceiveEnd, ReceiveThrows, AbortTakesEffect, InitSocket,
       main
  <1>2. CASE CloseOld
    <2> USE <1>2 DEF TypeOK, CloseOld, Close, main, conn
    <2>1. /\ TypeOK'
          /\ \A c \in Clients :
               /\ sock'[c] # "open"
               /\ sock'[c] \in {"none", "backlog"} => sock[c] = sock'[c]
               /\ sock[c] = "none" => sock'[c] = "none"
      BY <1>1 DEF OneOpenConnection
    <2> QED BY <2>1 DEF ServesInv, RepliesInv, AcceptInv, OneOpenConnection
  <1>3. CASE Accept
    <2> USE <1>3 DEF TypeOK, Accept, main, conn
    <2>1. PICK c \in Clients : /\ sock[c] = "backlog"
                               /\ sock' = [sock EXCEPT ![c] = "open"]
                               /\ clientSocket' = c
      OBVIOUS
    <2>2. TypeOK'
      BY <1>1, <2>1
    <2> QED BY <2>1, <2>2
      DEF ServesInv, RepliesInv, AcceptInv, OneOpenConnection
  <1>4. CASE SocketSend
    <2> USE <1>4 DEF TypeOK, SocketSend, main
    <2>1. clientSocket \in Clients
      BY DEF ServesInv
    <2>2. CASE worker' = "receive"
      <3>1. /\ replies' = [replies EXCEPT ![clientSocket]
                                         = replies[clientSocket] + 1]
            /\ sock[clientSocket] = "open"
        BY <2>2
      <3>2. replies[clientSocket] <= received[clientSocket]
        BY <2>1 DEF RepliesInv
      <3>3. TypeOK'
        BY <1>1, <2>1, <2>2, <3>1, <3>2
      <3> QED BY <2>1, <2>2, <3>1, <3>2, <3>3
        DEF ServesInv, RepliesInv, AcceptInv, OneOpenConnection
    <2>3. CASE worker' = "dead"
      <3>1. TypeOK'
        BY <1>1, <2>3
      <3> QED BY <2>3, <3>1
        DEF ServesInv, RepliesInv, AcceptInv, OneOpenConnection
    <2> QED BY <2>2, <2>3
  <1>5. CASE ReceiveMessage
    <2> USE <1>5 DEF TypeOK, ReceiveMessage, main
    <2>1. clientSocket \in Clients
      BY DEF ServesInv
    <2>2. PICK n \in (received[clientSocket] + 1)..sent[clientSocket] :
             received' = [received EXCEPT ![clientSocket] = n]
      OBVIOUS
    <2>3. TypeOK'
      BY <1>1, <2>1, <2>2
    <2> QED BY <2>1, <2>2, <2>3
      DEF ServesInv, RepliesInv, AcceptInv, OneOpenConnection
  <1>6. CASE \/ AcceptThrows \/ ReceiveEnd \/ ReceiveThrows
             \/ AbortTakesEffect \/ InitSocket
    <2>1. /\ worker' \in {"close", "dead"}
          /\ UNCHANGED <<quit, clientSocket, sock, peer, sent, received,
                         replies>>
      BY <1>6 DEF AcceptThrows, ReceiveEnd, ReceiveThrows, AbortTakesEffect,
                  InitSocket, main, conn
    <2>2. TypeOK'
      BY <1>1, <2>1 DEF TypeOK
    <2> QED BY <2>1, <2>2
      DEF ServesInv, RepliesInv, AcceptInv, OneOpenConnection
  <1> QED BY <1>2, <1>3, <1>4, <1>5, <1>6 DEF WorkerStep

(* SocketQuit only closes, and the worker stays where it is.                  *)
LEMMA QuitTcp ==
    ASSUME TcpInv, QuitClosesClient \/ QuitStep
    PROVE  TcpInv'
  <1> USE TcpServerAssumption DEF TcpInv
  <1>1. aborted' \in BOOLEAN /\ serverOpen' \in BOOLEAN
    BY Zenon DEF TypeOK, QuitStep, QuitClosesClient, QuitAbortsThread,
                 QuitClosesServer
  <1>2. UNCHANGED <<worker, clientSocket, peer, sent, received, replies>>
    BY DEF QuitStep, QuitClosesClient, QuitAbortsThread, QuitClosesServer, conn
  <1>3. /\ sock' \in [Clients -> {"none", "backlog", "open", "closed"}]
        /\ \A c \in Clients : sock'[c] \in {sock[c], "closed"}
        /\ \A c \in Clients : sock[c] = "none" => sock'[c] = "none"
    BY DEF TypeOK, QuitStep, QuitClosesClient, QuitAbortsThread,
           QuitClosesServer, Close
  <1>4. quit' \in {"no", "client", "thread", "done"}
    BY DEF QuitStep, QuitClosesClient, QuitAbortsThread, QuitClosesServer
  <1>5. TypeOK'
    BY <1>1, <1>2, <1>3, <1>4 DEF TypeOK
  <1> QED BY <1>2, <1>3, <1>5
    DEF ServesInv, RepliesInv, AcceptInv, OneOpenConnection

(* Every step keeps the invariant.                                            *)
LEMMA TcpSteps == TcpInv /\ [Next]_vars => TcpInv'
  <1> SUFFICES ASSUME TcpInv, [Next]_vars PROVE TcpInv'
    OBVIOUS
  <1>1. CASE UNCHANGED vars
    BY <1>1 DEF vars, TcpInv, TypeOK, ServesInv, RepliesInv, AcceptInv,
                OneOpenConnection
  <1> QED BY <1>1, ClientTcp, WorkerTcp, QuitTcp DEF Next

(* So it always holds.                                                        *)
LEMMA TcpInvariant == Spec => []TcpInv
  BY InitTcp, TcpSteps, PTL DEF Spec

-----------------------------------------------------------------------------
(* Every variable of the server keeps its type: it never reads more messages  *)
(* than were sent, and answers each at most once after one greeting.          *)
THEOREM TcpTyped == Spec => []TypeOK
  BY TcpInvariant, PTL DEF TcpInv

(* The server holds at most one connection open, the one clientSocket names,  *)
(* for any number of clients and wherever SocketQuit comes in between.        *)
THEOREM TcpHoldsOneConnection == Spec => []OneOpenConnection
  BY TcpInvariant, PTL DEF TcpInv
=============================================================================
