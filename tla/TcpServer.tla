------------------------------ MODULE TcpServer ------------------------------
(* TestRayTrace.unity/Assets/Net/TcpServer.cs: a worker thread that serves    *)
(* one client after the other with blocking calls, and Unity's main thread,   *)
(* which on quitting closes the worker's sockets under it.  An exception that *)
(* the worker does not catch (it catches none) ends the worker.               *)
EXTENDS Integers, FiniteSets

CONSTANTS Clients,    \* the connections clients make
          NoClient,   \* the field clientSocket before the first Accept
          MaxMessages \* bound: messages one client sends

ASSUME TcpServerAssumption ==
    NoClient \notin Clients /\ MaxMessages \in Nat

VARIABLES
    worker,       \* where the worker thread is
    quit,         \* where SocketQuit on the main thread is
    aborted,      \* connectThread.Abort was called
    serverOpen,   \* serverSocket is open
    clientSocket,
    sock,         \* client -> the server's socket of its connection
    peer,         \* client -> the connection as the client left it
    sent,         \* client -> messages it has sent
    received,     \* client -> messages the worker has received
    replies       \* client -> "Welcome" and echoes sent to it

vars == <<worker, quit, aborted, serverOpen, clientSocket, sock, peer, sent,
          received, replies>>

Init ==
    /\ worker = "unstarted"
    /\ quit = "no"
    /\ aborted = FALSE
    /\ serverOpen = FALSE
    /\ clientSocket = NoClient
    /\ sock = [c \in Clients |-> "none"]
    /\ peer = [c \in Clients |-> "none"]
    /\ sent = [c \in Clients |-> 0]
    /\ received = [c \in Clients |-> 0]
    /\ replies = [c \in Clients |-> 0]

-----------------------------------------------------------------------------
(* The clients.                                                               *)
conn == <<sent, received, replies>>
main == <<quit, aborted, serverOpen>>

ClientConnects(c) ==
    /\ serverOpen
    /\ peer[c] = "none"
    /\ peer' = [peer EXCEPT ![c] = "open"]
    /\ sock' = [sock EXCEPT ![c] = "backlog"]
    /\ UNCHANGED <<worker, main, clientSocket, conn>>

ClientSends(c) ==
    /\ peer[c] = "open"
    /\ sent[c] < MaxMessages
    /\ sent' = [sent EXCEPT ![c] = @ + 1]
    /\ UNCHANGED <<worker, main, clientSocket, sock, peer, received, replies>>

ClientCloses(c) ==
    /\ peer[c] = "open"
    /\ peer' = [peer EXCEPT ![c] = "closed"]
    /\ UNCHANGED <<worker, main, clientSocket, sock, conn>>

(* An abortive close, or the answer of a closed peer to data sent to it.      *)
ClientResets(c) ==
    /\ \/ peer[c] = "open"
       \/ peer[c] = "closed" /\ replies[c] > 0
    /\ peer' = [peer EXCEPT ![c] = "reset"]
    /\ UNCHANGED <<worker, main, clientSocket, sock, conn>>

-----------------------------------------------------------------------------
(* InitSocket, on the main thread.                                            *)
InitSocket ==
    /\ worker = "unstarted"
    /\ serverOpen' = TRUE
    /\ worker' = "close"
    /\ UNCHANGED <<quit, aborted, clientSocket, sock, peer, conn>>

(* A socket call of the worker fails: its socket was closed by SocketQuit or  *)
(* the client reset the connection.                                           *)
Fails(c) == sock[c] = "closed" \/ peer[c] = "reset"

Close(c) == sock' = [sock EXCEPT ![c] = IF @ = "open" THEN "closed" ELSE @]

(* Mutant: the old client is not closed.                                      *)
KeepOld ==
    /\ worker = "close"
    /\ worker' = "accept"
    /\ UNCHANGED <<main, clientSocket, sock, peer, conn>>

(* SocketConnet: close the old client, accept, greet.                         *)
CloseOld ==
    /\ worker = "close"
    /\ \/ clientSocket = NoClient /\ UNCHANGED sock
       \/ clientSocket # NoClient /\ Close(clientSocket)
    /\ worker' = "accept"
    /\ UNCHANGED <<main, clientSocket, peer, conn>>

Accept ==
    /\ worker = "accept"
    /\ \E c \in Clients :
         /\ sock[c] = "backlog"
         /\ sock' = [sock EXCEPT ![c] = "open"]
         /\ clientSocket' = c
    /\ worker' = "greet"
    /\ UNCHANGED <<main, peer, conn>>

AcceptThrows ==
    /\ worker = "accept"
    /\ ~serverOpen
    /\ worker' = "dead"
    /\ UNCHANGED <<main, clientSocket, sock, peer, conn>>

(* SocketSend, of the greeting and of an echo.                                *)
SocketSend ==
    /\ worker \in {"greet", "echo"}
    /\ \/ /\ sock[clientSocket] = "open"
          /\ replies' = [replies EXCEPT ![clientSocket] = @ + 1]
          /\ worker' = "receive"
       \/ /\ Fails(clientSocket)
          /\ worker' = "dead"
          /\ UNCHANGED replies
    /\ UNCHANGED <<main, clientSocket, sock, peer, sent, received>>

(* Mutant: a zero length is echoed like a message.                            *)
ReceiveUnchecked ==
    /\ worker = "receive"
    /\ ~Fails(clientSocket)
    /\ \/ received[clientSocket] < sent[clientSocket]
       \/ peer[clientSocket] = "closed"
    /\ received' = [received EXCEPT ![clientSocket] = @ + 1]
    /\ worker' = "echo"
    /\ UNCHANGED <<main, clientSocket, sock, peer, sent, replies>>

(* The loop of SocketReceive; Receive blocks while there is nothing to read,  *)
(* and returns any number of the messages that are there, echoed as one.      *)
ReceiveMessage ==
    /\ worker = "receive"
    /\ ~Fails(clientSocket)
    /\ \E n \in (received[clientSocket] + 1)..sent[clientSocket] :
           received' = [received EXCEPT ![clientSocket] = n]
    /\ worker' = "echo"
    /\ UNCHANGED <<main, clientSocket, sock, peer, sent, replies>>

(* Mutant: a zero length only leaves the loop for the next round.             *)
ReceiveEndAgain ==
    /\ worker = "receive"
    /\ ~Fails(clientSocket)
    /\ received[clientSocket] = sent[clientSocket]
    /\ peer[clientSocket] = "closed"
    /\ UNCHANGED vars

ReceiveEnd ==
    /\ worker = "receive"
    /\ ~Fails(clientSocket)
    /\ received[clientSocket] = sent[clientSocket]
    /\ peer[clientSocket] = "closed"
    /\ worker' = "close"
    /\ UNCHANGED <<main, clientSocket, sock, peer, conn>>

ReceiveThrows ==
    /\ worker = "receive"
    /\ Fails(clientSocket)
    /\ worker' = "dead"
    /\ UNCHANGED <<main, clientSocket, sock, peer, conn>>

(* The thread abort takes effect at any point after Abort, or never: a thread *)
(* that is blocked in a native Receive or Accept need not notice it.          *)
AbortTakesEffect ==
    /\ aborted
    /\ worker # "dead"
    /\ worker' = "dead"
    /\ UNCHANGED <<main, clientSocket, sock, peer, conn>>

-----------------------------------------------------------------------------
(* SocketQuit, on the main thread.                                            *)
QuitClosesClient ==
    /\ quit = "no"
    /\ worker # "unstarted"
    /\ \/ clientSocket = NoClient /\ UNCHANGED sock
       \/ clientSocket # NoClient /\ Close(clientSocket)
    /\ quit' = "client"
    /\ UNCHANGED <<worker, aborted, serverOpen, clientSocket, peer, conn>>

QuitAbortsThread ==
    /\ quit = "client"
    /\ aborted' = TRUE
    /\ quit' = "thread"
    /\ UNCHANGED <<worker, serverOpen, clientSocket, sock, peer, conn>>

(* Mutant: the listening socket is not closed.                                *)
QuitKeepsServer ==
    /\ quit = "thread"
    /\ quit' = "done"
    /\ UNCHANGED <<worker, aborted, serverOpen, clientSocket, sock, peer, conn>>

QuitClosesServer ==
    /\ quit = "thread"
    /\ serverOpen' = FALSE
    /\ sock' = [c \in Clients |-> IF sock[c] = "backlog" THEN "closed"
                                                         ELSE sock[c]]
    /\ quit' = "done"
    /\ UNCHANGED <<worker, aborted, clientSocket, peer, conn>>

-----------------------------------------------------------------------------
WorkerStep == \/ CloseOld \/ Accept \/ AcceptThrows \/ SocketSend
              \/ ReceiveMessage \/ ReceiveEnd \/ ReceiveThrows

QuitStep == QuitAbortsThread \/ QuitClosesServer

ClientStep(c) == \/ ClientConnects(c) \/ ClientSends(c)
                 \/ ClientCloses(c) \/ ClientResets(c)

Next == \/ InitSocket \/ WorkerStep \/ AbortTakesEffect
        \/ QuitClosesClient \/ QuitStep
        \/ \E c \in Clients : ClientStep(c)

Spec == Init /\ [][Next]_vars

(* Both threads run on; nothing is assumed of the abort.                      *)
Fairness == WF_vars(WorkerStep) /\ WF_vars(QuitStep) /\ WF_vars(InitSocket)

FairSpec == Spec /\ Fairness

-----------------------------------------------------------------------------
(* Every variable has its type.                                               *)
TypeOK ==
    /\ worker \in {"unstarted", "close", "accept", "greet", "receive", "echo",
                   "dead"}
    /\ quit \in {"no", "client", "thread", "done"}
    /\ aborted \in BOOLEAN
    /\ serverOpen \in BOOLEAN
    /\ clientSocket \in Clients \cup {NoClient}
    /\ sock \in [Clients -> {"none", "backlog", "open", "closed"}]
    /\ peer \in [Clients -> {"none", "open", "closed", "reset"}]
    /\ sent \in [Clients -> 0..MaxMessages]
    /\ received \in [Clients -> 0..MaxMessages]
    /\ replies \in [Clients -> 0..(MaxMessages + 1)]

(* The server holds one connection at a time, the one clientSocket names,     *)
(* also while SocketQuit closes it from the main thread.                      *)
OneOpenConnection ==
    \A c \in Clients : sock[c] = "open" => c = clientSocket

(* If no connection is reset and the application does not quit, and every     *)
(* client that was greeted leaves some day, then every client that waits in   *)
(* the backlog is greeted.                                                    *)
WaitingClientsAreGreeted ==
    /\ [](quit = "no" /\ \A c \in Clients : peer[c] # "reset")
    /\ \A c \in Clients : replies[c] > 0 ~> peer[c] = "closed"
    => \A c \in Clients : sock[c] = "backlog" ~> replies[c] > 0

(* If every client that was greeted leaves or resets some day, the worker     *)
(* ends after SocketQuit wherever that found it, and also if the abort never  *)
(* reaches it: a socket call fails.  The premise is for the connection that   *)
(* Accept returned after SocketQuit had closed the client: it stays open, and *)
(* the worker stays in its Receive as long as the client stays silent.        *)
QuitEndsWorker ==
    (\A c \in Clients : replies[c] > 0 ~> peer[c] \in {"closed", "reset"})
    => (quit = "done" ~> worker = "dead")

(* TcpServer.cs:94-99 says of SocketQuit "close the connection" and "first    *)
(* close the client": once it is done and the worker has ended, no client     *)
(* connection is left open.                                                   *)
QuitLeavesNoConnection ==
    quit = "done" /\ worker = "dead" => \A c \in Clients : sock[c] # "open"
=============================================================================
