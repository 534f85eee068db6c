--------------------------- MODULE AsyncTcpServer ---------------------------
(* The transport of TestRayTrace.unity/Assets/Net/NetFrame.cs: one listener,  *)
(* a chain of accept callbacks that re-posts itself, and per connection a     *)
(* chain of read callbacks that re-posts itself.  Every callback runs on a    *)
(* pool thread.  An exception that leaves a callback ends that callback and   *)
(* nothing else (Mono logs it), so a chain whose callback throws is over.     *)
(* A peer stands for one connection: it connects at most once.                *)
EXTENDS Integers, FiniteSets

CONSTANTS Peers,      \* the connections clients make
          NoPeer,     \* "no connection", a value outside Peers
          MaxStarts,  \* bound: successful calls of Start, each begins a chain
          MaxSid,     \* bound: sessions ids handed out
          MaxBytes,   \* bound: bytes one peer sends
          BufLen      \* length of TcpClientState.Buffer

ASSUME TransportAssumption ==
    /\ NoPeer \notin Peers
    /\ MaxStarts \in Nat \ {0}
    /\ MaxSid \in Nat \ {0}
    /\ MaxBytes \in Nat
    /\ BufLen \in Nat \ {0}

Chains == 1..MaxStarts
Sids == 1..MaxSid

VARIABLES
    isRunning,  \* the property IsRunning
    disposed,   \* Dispose has run: listener is null
    listening,  \* the listener's socket is open
    lastSid,
    starts,     \* accept chains begun so far
    accPc,      \* accept chain -> where its operation or callback stands
    accPeer,    \* accept chain -> the connection it accepted
    tmpSid,     \* accept chain -> the value lastSid++ has read
    link,       \* peer -> the TCP connection as the peer left it
    sock,       \* peer -> the server's socket of that connection
    sent,       \* peer -> bytes the peer wrote
    taken,      \* peer -> bytes completed reads moved to the buffer
    buf,        \* peer -> the bytes in TcpClientState.Buffer, as an interval
    got,        \* history: peer -> last byte passed to OnDatagramReceived
    rd,         \* peer -> where the read operation or its callback stands
    sid         \* peer -> TcpClientState.Sid, 0 before there is one

server == <<isRunning, disposed, listening, lastSid, starts>>
accept == <<accPc, accPeer, tmpSid>>
network == <<link, sent>>
receive == <<taken, buf, got, rd>>
tvars == <<isRunning, disposed, listening, lastSid, starts, accPc, accPeer,
           tmpSid, link, sock, sent, taken, buf, got, rd, sid>>

(* The places of an accept chain.  From "accepted" to "repost" the callback   *)
(* HandleTcpClientAccepted is running.                                        *)
AccPcs == {"none", "pending", "completed", "accepted", "sidRead", "sidWritten",
           "connected", "begin", "repost", "aborted", "dead"}
LivePcs == AccPcs \ {"none", "aborted", "dead"}

(* The places of a read chain: "datagram" and "gone" are the calls of         *)
(* OnDatagramReceived and OnClientDisconnected; it ends "closed" when the     *)
(* disconnection was reported and "lost" when it never will be.               *)
RdPcs == {"none", "posted", "completed", "ended", "datagram", "gone",
          "repost", "closed", "lost"}

Interval == [from : 0..(MaxBytes + 1), upto : 0..MaxBytes]

Init ==
    /\ isRunning = FALSE
    /\ disposed = FALSE
    /\ listening = FALSE
    /\ lastSid = 0
    /\ starts = 0
    /\ accPc = [c \in Chains |-> "none"]
    /\ accPeer = [c \in Chains |-> NoPeer]
    /\ tmpSid = [c \in Chains |-> 0]
    /\ link = [p \in Peers |-> "none"]
    /\ sock = [p \in Peers |-> "none"]
    /\ sent = [p \in Peers |-> 0]
    /\ taken = [p \in Peers |-> 0]
    /\ buf = [p \in Peers |-> [from |-> 1, upto |-> 0]]
    /\ got = [p \in Peers |-> 0]
    /\ rd = [p \in Peers |-> "none"]
    /\ sid = [p \in Peers |-> 0]

-----------------------------------------------------------------------------
(* Start, Stop, Dispose.                                                      *)

(* Start on a running server does nothing.  After Dispose the listener is     *)
(* null: IsRunning is set before listener.Start throws.                       *)
Start ==
    /\ ~isRunning
    /\ isRunning' = TRUE
    /\ \/ /\ disposed
          /\ UNCHANGED <<listening, starts, accPc>>
       \/ /\ ~disposed
          /\ starts < MaxStarts
          /\ starts' = starts + 1
          /\ listening' = TRUE
          /\ accPc' = [accPc EXCEPT ![starts + 1] = "pending"]
    /\ UNCHANGED <<disposed, lastSid, accPeer, tmpSid, network, sock, receive,
                   sid>>

(* listener.Stop closes the listening socket: operations whose callback has   *)
(* not run yet are aborted, connections still in the backlog are dropped.     *)
Waiting(p) == \/ sock[p] = "queued"
              \/ \E c \in Chains : accPc[c] = "completed" /\ accPeer[c] = p

StopListener ==
    /\ isRunning' = FALSE
    /\ listening' = FALSE
    /\ accPc' = [c \in Chains |-> IF accPc[c] \in {"pending", "completed"}
                                  THEN "aborted" ELSE accPc[c]]
    /\ sock' = [p \in Peers |-> IF Waiting(p) THEN "dropped" ELSE sock[p]]

Stop ==
    /\ isRunning
    /\ StopListener
    /\ UNCHANGED <<disposed, lastSid, starts, accPeer, tmpSid, network,
                   receive, sid>>

(* Dispose stops the listener and forgets it; the sockets of the connections  *)
(* accepted so far are left as they are.                                      *)
Dispose ==
    /\ ~disposed
    /\ disposed' = TRUE
    /\ \/ isRunning /\ StopListener
       \/ ~isRunning /\ UNCHANGED <<isRunning, listening, accPc, sock>>
    /\ UNCHANGED <<lastSid, starts, accPeer, tmpSid, network, receive, sid>>

-----------------------------------------------------------------------------
(* The peers and the kernel.                                                  *)

PeerConnect(p) ==
    /\ listening
    /\ link[p] = "none"
    /\ link' = [link EXCEPT ![p] = "open"]
    /\ sock' = [sock EXCEPT ![p] = "queued"]
    /\ UNCHANGED <<server, accept, sent, receive, sid>>

PeerSend(p) ==
    /\ link[p] = "open"
    /\ sent[p] < MaxBytes
    /\ sent' = [sent EXCEPT ![p] = @ + 1]
    /\ UNCHANGED <<server, accept, link, sock, receive, sid>>

PeerClose(p) ==
    /\ link[p] = "open"
    /\ link' = [link EXCEPT ![p] = "closed"]
    /\ UNCHANGED <<server, accept, sent, sock, receive, sid>>

PeerReset(p) ==
    /\ link[p] \in {"open", "closed"}
    /\ link' = [link EXCEPT ![p] = "reset"]
    /\ UNCHANGED <<server, accept, sent, sock, receive, sid>>

(* A posted accept completes with a connection of the backlog.                *)
AcceptCompletes(c) ==
    /\ accPc[c] = "pending"
    /\ \E p \in Peers :
         /\ sock[p] = "queued"
         /\ sock' = [sock EXCEPT ![p] = "accepted"]
         /\ accPeer' = [accPeer EXCEPT ![c] = p]
    /\ accPc' = [accPc EXCEPT ![c] = "completed"]
    /\ UNCHANGED <<server, tmpSid, network, receive, sid>>

(* A posted read completes with the next bytes, as many as arrived and fit.   *)
ReadCompletes(p) ==
    /\ rd[p] = "posted"
    /\ link[p] # "reset"
    /\ sock[p] = "accepted"
    /\ \E n \in 1..BufLen :
         /\ taken[p] + n <= sent[p]
         /\ buf' = [buf EXCEPT ![p] = [from |-> taken[p] + 1,
                                       upto |-> taken[p] + n]]
         /\ taken' = [taken EXCEPT ![p] = taken[p] + n]
    /\ rd' = [rd EXCEPT ![p] = "completed"]
    /\ UNCHANGED <<server, accept, network, sock, got, sid>>

(* ... or with no bytes: the peer is done, or the connection was aborted.     *)
ReadEnds(p) ==
    /\ rd[p] = "posted"
    /\ \/ link[p] = "closed" /\ taken[p] = sent[p]
       \/ link[p] = "reset"
       \/ sock[p] = "disconnected"
    /\ rd' = [rd EXCEPT ![p] = "ended"]
    /\ UNCHANGED <<server, accept, network, sock, taken, buf, got, sid>>

(* GetStream, BeginRead, BeginWrite and Socket.Disconnect throw on a socket   *)
(* that is no longer connected; when the runtime notices is its own affair,   *)
(* so an aborted connection may or may not make a call throw.                 *)
MayThrow(p) == link[p] = "reset" \/ sock[p] = "disconnected"

-----------------------------------------------------------------------------
(* HandleTcpClientAccepted: EndAccept, GetNewSid (read, write and return of   *)
(* the field, without a lock), OnClientConnected, BeginRead, BeginAccept.     *)

(* Mutant: the callback returns early for a peer that has already left.       *)
EndAcceptSkipsClosed(c) ==
    /\ accPc[c] = "completed"
    /\ isRunning
    /\ \/ /\ link[accPeer[c]] = "open"
          /\ accPc' = [accPc EXCEPT ![c] = "accepted"]
          /\ UNCHANGED sock
       \/ /\ link[accPeer[c]] # "open"
          /\ accPc' = [accPc EXCEPT ![c] = "dead"]
          /\ sock' = [sock EXCEPT ![accPeer[c]] = "dropped"]
    /\ UNCHANGED <<server, accPeer, tmpSid, network, receive, sid>>

(* EndAccept throws for a connection that was aborted in the backlog.         *)
EndAccept(c) ==
    /\ accPc[c] = "completed"
    /\ isRunning
    /\ \/ /\ accPc' = [accPc EXCEPT ![c] = "accepted"]
          /\ UNCHANGED sock
       \/ /\ link[accPeer[c]] = "reset"
          /\ accPc' = [accPc EXCEPT ![c] = "dead"]
          /\ sock' = [sock EXCEPT ![accPeer[c]] = "dropped"]
    /\ UNCHANGED <<server, accPeer, tmpSid, network, receive, sid>>

(* After Stop the callback returns at once; after Stop and Start EndAccept    *)
(* throws for the closed socket.  Either way the chain is over.               *)
EndAborted(c) ==
    /\ accPc[c] = "aborted"
    /\ accPc' = [accPc EXCEPT ![c] = "dead"]
    /\ UNCHANGED <<server, accPeer, tmpSid, network, sock, receive, sid>>

GetNewSidRead(c) ==
    /\ accPc[c] = "accepted"
    /\ tmpSid' = [tmpSid EXCEPT ![c] = lastSid]
    /\ accPc' = [accPc EXCEPT ![c] = "sidRead"]
    /\ UNCHANGED <<server, accPeer, network, sock, receive, sid>>

(* Mutant: the field is set instead of incremented.                           *)
GetNewSidNoCount(c) ==
    /\ accPc[c] = "sidRead"
    /\ tmpSid[c] < MaxSid
    /\ lastSid' = 1
    /\ accPc' = [accPc EXCEPT ![c] = "sidWritten"]
    /\ UNCHANGED <<isRunning, disposed, listening, starts, accPeer, tmpSid,
                   network, sock, receive, sid>>

GetNewSidWrite(c) ==
    /\ accPc[c] = "sidRead"
    /\ tmpSid[c] < MaxSid
    /\ lastSid' = tmpSid[c] + 1
    /\ accPc' = [accPc EXCEPT ![c] = "sidWritten"]
    /\ UNCHANGED <<isRunning, disposed, listening, starts, accPeer, tmpSid,
                   network, sock, receive, sid>>

(* Mutant: the first BeginRead is moved before OnClientConnected.             *)
GetNewSidThenRead(c) ==
    /\ accPc[c] = "sidWritten"
    /\ sid' = [sid EXCEPT ![accPeer[c]] = lastSid]
    /\ accPc' = [accPc EXCEPT ![c] = "connected"]
    /\ rd' = [rd EXCEPT ![accPeer[c]] = "posted"]
    /\ UNCHANGED <<server, accPeer, tmpSid, network, sock, taken, buf, got>>

GetNewSidReturn(c) ==
    /\ accPc[c] = "sidWritten"
    /\ sid' = [sid EXCEPT ![accPeer[c]] = lastSid]
    /\ accPc' = [accPc EXCEPT ![c] = "connected"]
    /\ UNCHANGED <<server, accPeer, tmpSid, network, sock, receive>>

OnClientConnected(c) ==
    /\ accPc[c] = "connected"
    /\ accPc' = [accPc EXCEPT ![c] = "begin"]
    /\ UNCHANGED <<server, accPeer, tmpSid, network, sock, receive, sid>>

(* The first BeginRead; if it throws, BeginAccept is never reached.           *)
BeginFirstRead(c) ==
    /\ accPc[c] = "begin"
    /\ \/ /\ accPc' = [accPc EXCEPT ![c] = "repost"]
          /\ rd' = [rd EXCEPT ![accPeer[c]] = "posted"]
       \/ /\ MayThrow(accPeer[c])
          /\ accPc' = [accPc EXCEPT ![c] = "dead"]
          /\ rd' = [rd EXCEPT ![accPeer[c]] = "lost"]
    /\ UNCHANGED <<server, accPeer, tmpSid, network, sock, taken, buf, got,
                   sid>>

(* Mutant: the next accept is posted only after some connection has ended.    *)
BeginNextAcceptLate(c) ==
    /\ accPc[c] = "repost"
    /\ \E p \in Peers : rd[p] = "closed"
    /\ accPc' = [accPc EXCEPT ![c] = IF listening THEN "pending" ELSE "dead"]
    /\ accPeer' = [accPeer EXCEPT ![c] = NoPeer]
    /\ UNCHANGED <<server, tmpSid, network, sock, receive, sid>>

BeginNextAccept(c) ==
    /\ accPc[c] = "repost"
    /\ accPc' = [accPc EXCEPT ![c] = IF listening THEN "pending" ELSE "dead"]
    /\ accPeer' = [accPeer EXCEPT ![c] = NoPeer]
    /\ UNCHANGED <<server, tmpSid, network, sock, receive, sid>>

-----------------------------------------------------------------------------
(* HandleDatagramReceived: the callback of a completed read.                  *)

HandleDatagramReceived(p) ==
    /\ rd[p] \in {"completed", "ended"}
    /\ \/ /\ isRunning
          /\ rd' = [rd EXCEPT ![p] = IF @ = "completed" THEN "datagram"
                                                        ELSE "gone"]
       \/ /\ ~isRunning \/ MayThrow(p)
          /\ rd' = [rd EXCEPT ![p] = "lost"]
    /\ UNCHANGED <<server, accept, network, sock, taken, buf, got, sid>>

(* Mutant: the whole buffer is handed over, not the bytes that were read.     *)
OnDatagramWholeBuffer(p) ==
    /\ rd[p] = "datagram"
    /\ got' = [got EXCEPT ![p] = buf[p].from + BufLen - 1]
    /\ rd' = [rd EXCEPT ![p] = "repost"]
    /\ UNCHANGED <<server, accept, network, sock, taken, buf, sid>>

OnDatagramReceived(p) ==
    /\ rd[p] = "datagram"
    /\ got' = [got EXCEPT ![p] = buf[p].upto]
    /\ rd' = [rd EXCEPT ![p] = "repost"]
    /\ UNCHANGED <<server, accept, network, sock, taken, buf, sid>>

OnClientDisconnected(p) ==
    /\ rd[p] = "gone"
    /\ rd' = [rd EXCEPT ![p] = "closed"]
    /\ UNCHANGED <<server, accept, network, sock, taken, buf, got, sid>>

BeginNextRead(p) ==
    /\ rd[p] = "repost"
    /\ \/ rd' = [rd EXCEPT ![p] = "posted"]
       \/ MayThrow(p) /\ rd' = [rd EXCEPT ![p] = "lost"]
    /\ UNCHANGED <<server, accept, network, sock, taken, buf, got, sid>>

-----------------------------------------------------------------------------
(* Send and Disconnect on a session the application was given.                *)

(* BeginWrite; the guard is Send's exception when the server is stopped.  The *)
(* datagram leaves the model here: the completion callback                    *)
(* HandleDatagramWritten casts a TcpClientState to TcpClient, so it always    *)
(* throws before EndWrite and changes nothing.                                *)
Send(p) ==
    /\ isRunning
    /\ UNCHANGED tvars

Disconnect(p) ==
    /\ sock[p] = "accepted"
    /\ sock' = [sock EXCEPT ![p] = "disconnected"]
    /\ UNCHANGED <<server, accept, network, receive, sid>>

(* The owner of the server may use a session from OnClientConnected on, also  *)
(* on other threads while that call is still running.                         *)
Known(p) == \/ rd[p] # "none"
            \/ \E c \in Chains : /\ accPc[c] \in {"connected", "begin"}
                                 /\ accPeer[c] = p

-----------------------------------------------------------------------------
PeerStep(p) == PeerConnect(p) \/ PeerSend(p) \/ PeerClose(p) \/ PeerReset(p)

AcceptStep(c) ==
    \/ AcceptCompletes(c) \/ EndAccept(c) \/ EndAborted(c)
    \/ GetNewSidRead(c) \/ GetNewSidWrite(c) \/ GetNewSidReturn(c)
    \/ BeginFirstRead(c) \/ BeginNextAccept(c)

ReadStep(p) ==
    \/ ReadCompletes(p) \/ ReadEnds(p)
    \/ HandleDatagramReceived(p) \/ BeginNextRead(p)

(* The callbacks, for an owner that does nothing in them.                     *)
CallbackStep ==
    \/ \E c \in Chains : OnClientConnected(c)
    \/ \E p \in Peers : OnDatagramReceived(p) \/ OnClientDisconnected(p)

OwnerStep ==
    \/ Start \/ Stop \/ Dispose
    \/ \E p \in Peers : Known(p) /\ (Send(p) \/ Disconnect(p))

Next ==
    \/ OwnerStep
    \/ CallbackStep
    \/ \E c \in Chains : AcceptStep(c)
    \/ \E p \in Peers : PeerStep(p) \/ ReadStep(p)

Spec == Init /\ [][Next]_tvars
-----------------------------------------------------------------------------
(* Every variable has its type.                                               *)
TypeOK ==
    /\ isRunning \in BOOLEAN
    /\ disposed \in BOOLEAN
    /\ listening \in BOOLEAN
    /\ lastSid \in 0..MaxSid
    /\ starts \in 0..MaxStarts
    /\ accPc \in [Chains -> AccPcs]
    /\ accPeer \in [Chains -> Peers \cup {NoPeer}]
    /\ tmpSid \in [Chains -> 0..MaxSid]
    /\ link \in [Peers -> {"none", "open", "closed", "reset"}]
    /\ sock \in [Peers -> {"none", "queued", "accepted", "disconnected",
                           "dropped"}]
    /\ sent \in [Peers -> 0..MaxBytes]
    /\ taken \in [Peers -> 0..MaxBytes]
    /\ buf \in [Peers -> Interval]
    /\ got \in [Peers -> 0..MaxBytes]
    /\ rd \in [Peers -> RdPcs]
    /\ sid \in [Peers -> 0..MaxSid]

(* No callback of a connection runs before OnClientConnected returned for it: *)
(* while an accept chain has not passed that call, its connection has no read *)
(* posted (NetFrame.cs calls OnClientConnected before BeginRead).             *)
ConnectFirst ==
    \A c \in Chains :
        accPc[c] \in {"completed", "accepted", "sidRead", "sidWritten",
                      "connected", "begin"} => rd[accPeer[c]] = "none"

(* The datagram callbacks of a connection see its bytes without a gap and     *)
(* without a repetition: what is in the buffer when the callback runs starts  *)
(* right after the last byte handed over, although the one buffer is reused.  *)
DatagramsContiguous ==
    \A p \in Peers :
        IF rd[p] \in {"completed", "datagram"}
        THEN buf[p] = [from |-> got[p] + 1, upto |-> taken[p]]
        ELSE rd[p] # "lost" => got[p] = taken[p]

(* Two connections of one accept chain never have the same session id.  (With *)
(* two chains, after Stop and Start around a running callback, they may.)     *)
UniqueSids ==
    starts <= 1 => \A p, q \in Peers : sid[p] # 0 /\ sid[p] = sid[q] => p = q

(* The listening socket is left without an accept operation only because a    *)
(* connection was aborted between its arrival and its first BeginRead, by its *)
(* peer or by Disconnect.                                                     *)
AcceptLoopEndsByAbort ==
    listening /\ (\A c \in Chains : accPc[c] \notin LivePcs)
        => \E p \in Peers : /\ MayThrow(p) \/ sock[p] = "dropped"
                            /\ link[p] = "reset" \/ rd[p] = "lost"
                            /\ got[p] = 0
=============================================================================
