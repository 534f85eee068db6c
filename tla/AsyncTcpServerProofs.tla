------------------------ MODULE AsyncTcpServerProofs ------------------------
(* Theorems about the transport, for any number of connections and any bound. *)
EXTENDS AsyncTcpServer, TLAPS

(* A fresh server has well-typed state (constructor, NetFrame.cs:56-103).     *)
LEMMA InitTyped == Init => TypeOK
<1> SUFFICES ASSUME Init PROVE TypeOK
    OBVIOUS
<1>1. [from |-> 1, upto |-> 0] \in Interval
    BY TransportAssumption DEF Interval
<1>2. 0 \in 0..MaxSid /\ 0 \in 0..MaxBytes /\ 0 \in 0..MaxStarts
    BY TransportAssumption
<1>. QED
    BY <1>1, <1>2 DEF Init, TypeOK, AccPcs, RdPcs

(* Start, Stop, Dispose, Send and Disconnect keep the types.                  *)
LEMMA OwnerTyped == TypeOK /\ OwnerStep => TypeOK'
<1> SUFFICES ASSUME TypeOK, OwnerStep PROVE TypeOK'
    OBVIOUS
<1> USE TransportAssumption DEF TypeOK, AccPcs, Chains, TransportAssumption
<1>1. CASE Start
    <2>1. CASE disposed
        BY <1>1, <2>1 DEF Start, network, receive
    <2>2. CASE ~disposed
        <3>1. starts + 1 \in 1..MaxStarts
            BY <1>1, <2>2 DEF Start
        <3>2. starts' = starts + 1
              /\ accPc' = [accPc EXCEPT ![starts + 1] = "pending"]
            BY <1>1, <2>2 DEF Start
        <3>4. starts' \in 0..MaxStarts
            BY <3>1, <3>2
        <3>5. accPc' \in [Chains -> AccPcs]
            BY <3>2
        <3>3. isRunning' \in BOOLEAN /\ disposed' \in BOOLEAN
              /\ listening' \in BOOLEAN
            BY <1>1, <2>2 DEF Start
        <3>. QED
            BY <1>1, <3>3, <3>4, <3>5 DEF Start, network, receive
    <2>. QED
        BY <2>1, <2>2
<1>2. CASE Stop
    BY <1>2 DEF Stop, StopListener, network, receive
<1>3. CASE Dispose
    BY <1>3 DEF Dispose, StopListener, network, receive
<1>4. ASSUME NEW p \in Peers, Send(p) PROVE TypeOK'
    BY <1>4 DEF Send, tvars
<1>5. ASSUME NEW p \in Peers, Disconnect(p) PROVE TypeOK'
    BY <1>5 DEF Disconnect, server, accept, network, receive
<1>. QED
    BY <1>1, <1>2, <1>3, <1>4, <1>5 DEF OwnerStep

(* The accept chain keeps the types.                                          *)
LEMMA AcceptTyped ==
    ASSUME TypeOK, NEW c \in Chains, AcceptStep(c) \/ OnClientConnected(c)
    PROVE  TypeOK'
<1> USE TransportAssumption
    DEF TypeOK, AccPcs, RdPcs, server, accept, network, receive,
        TransportAssumption
<1>1. CASE AcceptCompletes(c)
    BY <1>1 DEF AcceptCompletes
<1>2. CASE EndAccept(c)
    BY <1>2 DEF EndAccept
<1>3. CASE EndAborted(c)
    BY <1>3 DEF EndAborted
<1>4. CASE GetNewSidRead(c)
    BY <1>4 DEF GetNewSidRead
<1>5. CASE GetNewSidWrite(c)
    BY <1>5 DEF GetNewSidWrite
<1>6. CASE GetNewSidReturn(c)
    BY <1>6 DEF GetNewSidReturn
<1>7. CASE OnClientConnected(c)
    BY <1>7 DEF OnClientConnected
<1>8. CASE BeginFirstRead(c)
    BY <1>8 DEF BeginFirstRead
<1>9. CASE BeginNextAccept(c)
    BY <1>9 DEF BeginNextAccept
<1>. QED
    BY <1>1, <1>2, <1>3, <1>4, <1>5, <1>6, <1>7, <1>8, <1>9 DEF AcceptStep

(* The peers and the read chain keep the types: a read delivers no more than  *)
(* what was sent, so the interval it writes stays within MaxBytes.            *)
LEMMA PeerTyped ==
    ASSUME TypeOK, NEW p \in Peers,
           \/ PeerStep(p) \/ ReadStep(p)
           \/ OnDatagramReceived(p) \/ OnClientDisconnected(p)
    PROVE  TypeOK'
<1> USE TransportAssumption
    DEF TypeOK, RdPcs, server, accept, network, receive, TransportAssumption
<1>1. CASE PeerConnect(p)
    BY <1>1 DEF PeerConnect
<1>2. CASE PeerSend(p)
    BY <1>2 DEF PeerSend
<1>3. CASE PeerClose(p)
    BY <1>3 DEF PeerClose
<1>4. CASE PeerReset(p)
    BY <1>4 DEF PeerReset
<1>5. CASE ReadCompletes(p)
    BY <1>5 DEF ReadCompletes, Interval
<1>6. CASE ReadEnds(p)
    BY <1>6 DEF ReadEnds
<1>7. CASE HandleDatagramReceived(p)
    BY <1>7 DEF HandleDatagramReceived
<1>8. CASE OnDatagramReceived(p)
    BY <1>8 DEF OnDatagramReceived, Interval
<1>9. CASE OnClientDisconnected(p)
    BY <1>9 DEF OnClientDisconnected
<1>10. CASE BeginNextRead(p)
    BY <1>10 DEF BeginNextRead
<1>. QED
    BY <1>1, <1>2, <1>3, <1>4, <1>5, <1>6, <1>7, <1>8, <1>9, <1>10
       DEF PeerStep, ReadStep

(* Every step of the transport keeps the types.                               *)
LEMMA NextTyped == TypeOK /\ [Next]_tvars => TypeOK'
<1> SUFFICES ASSUME TypeOK, [Next]_tvars PROVE TypeOK'
    OBVIOUS
<1>1. CASE UNCHANGED tvars
    BY <1>1 DEF TypeOK, tvars
<1>2. CASE Next
    BY <1>2, OwnerTyped, AcceptTyped, PeerTyped DEF Next, CallbackStep
<1>. QED
    BY <1>1, <1>2

(* The types hold in every reachable state of the transport.                  *)
THEOREM TransportTyped == Spec => []TypeOK
BY InitTyped, NextTyped, PTL DEF Spec

-----------------------------------------------------------------------------
(* Which connection a running accept callback owns.                           *)

(* The places of an accept chain that has a connection without a read.        *)
OwnerPcs == {"completed", "accepted", "sidRead", "sidWritten", "connected",
             "begin"}

(* A connection in the backlog has no read, ... *)
BacklogInv ==
    \A p \in Peers : /\ link[p] = "none" => sock[p] = "none"
                     /\ sock[p] \in {"none", "queued"} => rd[p] = "none"

(* ... a connection owned by a running accept callback has left the backlog   *)
(* and has no read yet, ... *)
OwnedInv ==
    \A c \in Chains : accPc[c] \in OwnerPcs =>
        /\ accPeer[c] \in Peers
        /\ sock[accPeer[c]] \notin {"none", "queued"}
        /\ rd[accPeer[c]] = "none"

(* ... and no two accept callbacks own the same connection.                   *)
OneOwnerInv ==
    \A c, d \in Chains :
        c # d /\ accPc[c] \in OwnerPcs /\ accPc[d] \in OwnerPcs
            => accPeer[c] # accPeer[d]

(* The inductive invariant behind ConnectFirst.                               *)
OwnInv == TypeOK /\ BacklogInv /\ OwnedInv /\ OneOwnerInv

(* No connection exists at first.                                             *)
LEMMA InitOwn == Init => OwnInv
<1> SUFFICES ASSUME Init PROVE OwnInv
    OBVIOUS
<1>1. TypeOK
    BY InitTyped
<1>. QED
    BY <1>1 DEF Init, OwnInv, BacklogInv, OwnedInv, OneOwnerInv, OwnerPcs

(* The owner's calls close the backlog or a socket, and start a chain without *)
(* a connection.                                                              *)
LEMMA OwnerOwn == OwnInv /\ OwnerStep => BacklogInv' /\ OwnedInv' /\ OneOwnerInv'
<1> SUFFICES ASSUME OwnInv, OwnerStep
             PROVE  BacklogInv' /\ OwnedInv' /\ OneOwnerInv'
    OBVIOUS
<1> USE DEF OwnInv, TypeOK, BacklogInv, OwnedInv, OneOwnerInv, OwnerPcs
<1>1. CASE Start
    <2>1. UNCHANGED <<accPeer, link, sock, rd>>
        BY <1>1 DEF Start, network, receive
    <2>2. \A c \in Chains : accPc'[c] \in OwnerPcs => accPc'[c] = accPc[c]
        BY <1>1 DEF Start
    <2>. QED
        BY <2>1, <2>2
<1>2. ASSUME StopListener, UNCHANGED <<accPeer, link, rd>>
      PROVE  BacklogInv' /\ OwnedInv' /\ OneOwnerInv'
    <2>1. \A c \in Chains : accPc'[c] \in OwnerPcs => accPc'[c] = accPc[c]
        BY <1>2 DEF StopListener
    <2>2. \A p \in Peers : sock'[p] = sock[p] \/ sock'[p] = "dropped"
        BY <1>2 DEF StopListener
    <2>3. \A p \in Peers : link[p] = "none" => sock'[p] = "none"
        BY <1>2 DEF StopListener, Waiting
    <2>. QED
        BY <1>2, <2>1, <2>2, <2>3
<1>3. CASE Stop
    BY <1>2, <1>3 DEF Stop, network, receive
<1>4. CASE Dispose
    <2>1. CASE isRunning
        BY <1>2, <1>4, <2>1 DEF Dispose, network, receive
    <2>2. CASE ~isRunning
        BY <1>4, <2>2 DEF Dispose, network, receive
    <2>. QED
        BY <2>1, <2>2
<1>5. ASSUME NEW p \in Peers, Send(p)
      PROVE  BacklogInv' /\ OwnedInv' /\ OneOwnerInv'
    BY <1>5 DEF Send, tvars
<1>6. ASSUME NEW p \in Peers, Disconnect(p)
      PROVE  BacklogInv' /\ OwnedInv' /\ OneOwnerInv'
    BY <1>6 DEF Disconnect, server, accept, network, receive
<1>. QED
    BY <1>1, <1>3, <1>4, <1>5, <1>6 DEF OwnerStep

(* An accept takes a connection out of the backlog, so no other callback owns *)
(* it; the callback gives it up when it posts the read or throws.             *)
LEMMA AcceptOwn ==
    ASSUME OwnInv, NEW c \in Chains, AcceptStep(c) \/ OnClientConnected(c)
    PROVE  BacklogInv' /\ OwnedInv' /\ OneOwnerInv'
<1> USE DEF OwnInv, TypeOK, BacklogInv, OwnedInv, OneOwnerInv, OwnerPcs,
            server, accept, network, receive
<1>1. CASE AcceptCompletes(c)
    <2>1. PICK p \in Peers : /\ sock[p] = "queued"
                             /\ sock' = [sock EXCEPT ![p] = "accepted"]
                             /\ accPeer' = [accPeer EXCEPT ![c] = p]
        BY <1>1 DEF AcceptCompletes
    <2>2. /\ accPc' = [accPc EXCEPT ![c] = "completed"]
          /\ UNCHANGED <<link, rd>>
        BY <1>1 DEF AcceptCompletes
    <2>3. \A d \in Chains : accPc[d] \in OwnerPcs => accPeer[d] # p
        BY <2>1
    <2>4. BacklogInv'
        BY <2>1, <2>2
    <2>5. OwnedInv'
        BY <2>1, <2>2, <2>3
    <2>6. OneOwnerInv'
        BY <2>1, <2>2, <2>3
    <2>. QED
        BY <2>4, <2>5, <2>6
<1>2. CASE EndAccept(c)
    BY <1>2 DEF EndAccept
<1>3. CASE EndAborted(c)
    BY <1>3 DEF EndAborted
<1>4. CASE GetNewSidRead(c)
    BY <1>4 DEF GetNewSidRead
<1>5. CASE GetNewSidWrite(c)
    BY <1>5 DEF GetNewSidWrite
<1>6. CASE GetNewSidReturn(c)
    BY <1>6 DEF GetNewSidReturn
<1>7. CASE OnClientConnected(c)
    BY <1>7 DEF OnClientConnected
<1>8. CASE BeginFirstRead(c)
    <2>1. accPc[c] \in OwnerPcs
        BY <1>8 DEF BeginFirstRead
    <2>2. /\ accPc'[c] \notin OwnerPcs
          /\ \A d \in Chains \ {c} : accPc'[d] = accPc[d]
          /\ \A p \in Peers \ {accPeer[c]} : rd'[p] = rd[p]
          /\ UNCHANGED <<accPeer, link, sock>>
        BY <1>8 DEF BeginFirstRead
    <2>3. BacklogInv'
        BY <2>1, <2>2
    <2>4. OwnedInv'
        BY <2>1, <2>2
    <2>5. OneOwnerInv'
        BY <2>2
    <2>. QED
        BY <2>3, <2>4, <2>5
<1>9. CASE BeginNextAccept(c)
    BY <1>9 DEF BeginNextAccept
<1>. QED
    BY <1>1, <1>2, <1>3, <1>4, <1>5, <1>6, <1>7, <1>8, <1>9 DEF AcceptStep

(* A connection connects once, and only a connection with a read has its read *)
(* chain moved on.                                                            *)
LEMMA PeerOwn ==
    ASSUME OwnInv, NEW p \in Peers,
           \/ PeerStep(p) \/ ReadStep(p)
           \/ OnDatagramReceived(p) \/ OnClientDisconnected(p)
    PROVE  BacklogInv' /\ OwnedInv' /\ OneOwnerInv'
<1> USE DEF OwnInv, TypeOK, BacklogInv, OwnedInv, OneOwnerInv, OwnerPcs,
            server, accept, network, receive
<1>1. CASE PeerConnect(p)
    BY <1>1 DEF PeerConnect
<1>2. CASE PeerSend(p)
    BY <1>2 DEF PeerSend
<1>3. CASE PeerClose(p)
    BY <1>3 DEF PeerClose
<1>4. CASE PeerReset(p)
    BY <1>4 DEF PeerReset
<1>5. CASE ReadStep(p) \/ OnDatagramReceived(p) \/ OnClientDisconnected(p)
    <2>1. /\ rd[p] # "none"
          /\ \A q \in Peers \ {p} : rd'[q] = rd[q]
          /\ UNCHANGED <<accPc, accPeer, link, sock>>
        BY <1>5 DEF ReadStep, ReadCompletes, ReadEnds, HandleDatagramReceived,
                    OnDatagramReceived, OnClientDisconnected, BeginNextRead
    <2>. QED
        BY <2>1
<1>. QED
    BY <1>1, <1>2, <1>3, <1>4, <1>5 DEF PeerStep

(* Every step keeps the ownership of the connections.                         *)
LEMMA NextOwn == OwnInv /\ [Next]_tvars => OwnInv'
<1> SUFFICES ASSUME OwnInv, [Next]_tvars PROVE OwnInv'
    OBVIOUS
<1>1. TypeOK'
    BY NextTyped DEF OwnInv
<1>2. CASE UNCHANGED tvars
    BY <1>1, <1>2 DEF OwnInv, BacklogInv, OwnedInv, OneOwnerInv, tvars
<1>3. CASE Next
    BY <1>1, <1>3, OwnerOwn, AcceptOwn, PeerOwn DEF Next, CallbackStep, OwnInv
<1>. QED
    BY <1>2, <1>3

(* Whatever the connections and the callers of Start, Stop and Dispose do, no *)
(* read is posted on a connection before OnClientConnected returned for it.   *)
THEOREM TransportConnectsFirst == Spec => []ConnectFirst
<1>1. OwnInv => ConnectFirst
    BY DEF OwnInv, OwnedInv, OwnerPcs, ConnectFirst
<1>. QED
    BY <1>1, InitOwn, NextOwn, PTL DEF Spec

-----------------------------------------------------------------------------
(* The bytes of a connection.                                                 *)

(* With the types and the ownership the order of the bytes is inductive.      *)
DatagramInv == OwnInv /\ DatagramsContiguous

(* No byte was read at first.                                                 *)
LEMMA InitDatagram == Init => DatagramInv
<1> SUFFICES ASSUME Init PROVE DatagramInv
    OBVIOUS
<1>1. OwnInv
    BY InitOwn
<1>. QED
    BY <1>1 DEF Init, DatagramInv, DatagramsContiguous

(* A read chain moves the buffer, the count of bytes taken and the last byte  *)
(* handed over together.                                                      *)
LEMMA ReadDatagram ==
    ASSUME DatagramInv, NEW p \in Peers,
           ReadStep(p) \/ OnDatagramReceived(p) \/ OnClientDisconnected(p)
    PROVE  DatagramsContiguous'
<1> USE DEF DatagramInv, OwnInv, TypeOK, DatagramsContiguous,
            server, accept, network, receive
<1>1. CASE ReadCompletes(p)
    <2>1. PICK n \in 1..BufLen :
            /\ buf' = [buf EXCEPT ![p] = [from |-> taken[p] + 1,
                                          upto |-> taken[p] + n]]
            /\ taken' = [taken EXCEPT ![p] = taken[p] + n]
        BY <1>1 DEF ReadCompletes
    <2>2. /\ rd[p] = "posted"
          /\ rd' = [rd EXCEPT ![p] = "completed"]
          /\ UNCHANGED got
        BY <1>1 DEF ReadCompletes
    <2>3. got[p] = taken[p]
        BY <2>2
    <2>4. /\ buf'[p] = [from |-> got'[p] + 1, upto |-> taken'[p]]
          /\ rd'[p] = "completed"
        BY <2>1, <2>2, <2>3
    <2>5. \A q \in Peers \ {p} : /\ buf'[q] = buf[q] /\ taken'[q] = taken[q]
                                 /\ rd'[q] = rd[q] /\ got'[q] = got[q]
        BY <2>1, <2>2
    <2>. QED
        BY <2>4, <2>5
<1>2. CASE ReadEnds(p)
    BY <1>2 DEF ReadEnds
<1>3. CASE HandleDatagramReceived(p)
    BY <1>3 DEF HandleDatagramReceived
<1>4. CASE OnDatagramReceived(p)
    <2>1. /\ got'[p] = buf[p].upto
          /\ rd[p] = "datagram" /\ rd'[p] = "repost"
          /\ UNCHANGED <<buf, taken>>
          /\ \A q \in Peers \ {p} : rd'[q] = rd[q] /\ got'[q] = got[q]
        BY <1>4 DEF OnDatagramReceived
    <2>2. buf[p].upto = taken[p]
        BY <2>1
    <2>. QED
        BY <2>1, <2>2
<1>5. CASE OnClientDisconnected(p)
    BY <1>5 DEF OnClientDisconnected
<1>6. CASE BeginNextRead(p)
    BY <1>6 DEF BeginNextRead
<1>. QED
    BY <1>1, <1>2, <1>3, <1>4, <1>5, <1>6 DEF ReadStep

(* An accept chain touches only the place of a read that was not posted yet.  *)
LEMMA AcceptDatagram ==
    ASSUME DatagramInv, NEW c \in Chains, AcceptStep(c) \/ OnClientConnected(c)
    PROVE  DatagramsContiguous'
<1> USE DEF DatagramInv, OwnInv, TypeOK, DatagramsContiguous,
            server, accept, network, receive
<1>1. CASE BeginFirstRead(c)
    <2>1. /\ accPeer[c] \in Peers
          /\ rd[accPeer[c]] = "none"
        BY <1>1 DEF BeginFirstRead, OwnedInv, OwnerPcs
    <2>2. /\ rd'[accPeer[c]] \in {"posted", "lost"}
          /\ \A q \in Peers \ {accPeer[c]} : rd'[q] = rd[q]
          /\ UNCHANGED <<taken, buf, got>>
        BY <1>1, <2>1 DEF BeginFirstRead
    <2>. QED
        BY <2>1, <2>2
<1>2. CASE ~BeginFirstRead(c)
    <2>1. UNCHANGED receive
        BY <1>2 DEF AcceptStep, AcceptCompletes, EndAccept, EndAborted,
                    GetNewSidRead, GetNewSidWrite, GetNewSidReturn,
                    BeginNextAccept, OnClientConnected
    <2>. QED
        BY <2>1
<1>. QED
    BY <1>1, <1>2

(* Every step keeps the order of the bytes.                                   *)
LEMMA NextDatagram == DatagramInv /\ [Next]_tvars => DatagramInv'
<1> SUFFICES ASSUME DatagramInv, [Next]_tvars PROVE DatagramInv'
    OBVIOUS
<1>1. OwnInv'
    BY NextOwn DEF DatagramInv
<1>2. ASSUME UNCHANGED receive PROVE DatagramsContiguous'
    BY <1>2 DEF DatagramInv, DatagramsContiguous, receive
<1>3. CASE UNCHANGED tvars
    BY <1>1, <1>2, <1>3 DEF DatagramInv, tvars, receive
<1>4. CASE OwnerStep
    <2>1. UNCHANGED receive
        BY <1>4 DEF OwnerStep, Start, Stop, Dispose, Send, Disconnect, tvars,
                    receive
    <2>. QED
        BY <1>1, <1>2, <2>1 DEF DatagramInv
<1>5. ASSUME NEW p \in Peers, PeerStep(p) PROVE DatagramInv'
    <2>1. UNCHANGED receive
        BY <1>5 DEF PeerStep, PeerConnect, PeerSend, PeerClose, PeerReset
    <2>. QED
        BY <1>1, <1>2, <2>1 DEF DatagramInv
<1>6. CASE CallbackStep \/ (\E c \in Chains : AcceptStep(c))
           \/ (\E p \in Peers : ReadStep(p))
    BY <1>1, <1>6, ReadDatagram, AcceptDatagram DEF CallbackStep, DatagramInv
<1>. QED
    BY <1>3, <1>4, <1>5, <1>6 DEF Next

(* The datagram callbacks see the bytes of every connection without a gap and *)
(* without a repetition.                                                      *)
THEOREM TransportDatagramsContiguous == Spec => []DatagramsContiguous
<1>1. DatagramInv => DatagramsContiguous
    BY DEF DatagramInv
<1>. QED
    BY <1>1, InitDatagram, NextDatagram, PTL DEF Spec

-----------------------------------------------------------------------------
(* Session ids.  GetNewSid is not atomic; what makes it work is that the      *)
(* callbacks of one accept chain follow each other.                           *)

(* A chain that Start has not begun does nothing.                             *)
ChainInv == \A c \in Chains : c > starts => accPc[c] = "none"

(* With one chain, the ids given so far are at most lastSid, and less than it *)
(* while a new id waits to be returned.                                       *)
FreshInv ==
    starts <= 1 =>
        /\ \A p \in Peers : sid[p] <= lastSid
        /\ \A c \in Chains : accPc[c] = "sidRead" => tmpSid[c] = lastSid
        /\ \A c \in Chains : accPc[c] = "sidWritten" =>
               \A p \in Peers : sid[p] < lastSid

(* The inductive invariant behind UniqueSids.                                 *)
SidInv == TypeOK /\ ChainInv /\ FreshInv /\ UniqueSids

(* No id was given at first.                                                  *)
LEMMA InitSid == Init => SidInv
<1> SUFFICES ASSUME Init PROVE SidInv
    OBVIOUS
<1>1. TypeOK
    BY InitTyped
<1>. QED
    BY <1>1 DEF Init, SidInv, ChainInv, FreshInv, UniqueSids

(* With one chain, a callback that runs is the only one.                      *)
LEMMA OneChain ==
    ASSUME SidInv, starts <= 1, NEW c \in Chains, accPc[c] # "none",
           NEW d \in Chains, accPc[d] # "none"
    PROVE  c = d
BY TransportAssumption DEF SidInv, TypeOK, ChainInv, Chains

(* The accept callback returns the id it has just written, and a fresh one.   *)
LEMMA AcceptSid ==
    ASSUME SidInv, NEW c \in Chains, AcceptStep(c) \/ OnClientConnected(c)
    PROVE  ChainInv' /\ FreshInv' /\ UniqueSids'
<1> USE DEF SidInv, TypeOK, server, accept, network, receive
<1>1. accPc[c] # "none" /\ UNCHANGED starts
    BY DEF AcceptStep, AcceptCompletes, EndAccept, EndAborted, GetNewSidRead,
           GetNewSidWrite, GetNewSidReturn, BeginFirstRead, BeginNextAccept,
           OnClientConnected
<1>2. \A d \in Chains \ {c} : accPc'[d] = accPc[d]
    BY DEF AcceptStep, AcceptCompletes, EndAccept, EndAborted, GetNewSidRead,
           GetNewSidWrite, GetNewSidReturn, BeginFirstRead, BeginNextAccept,
           OnClientConnected
<1>3. ChainInv'
    BY <1>1, <1>2 DEF ChainInv
<1>4. CASE starts > 1
    BY <1>1, <1>3, <1>4 DEF FreshInv, UniqueSids
<1>5. CASE starts <= 1
    <2>1. \A d \in Chains \ {c} : accPc[d] = "none"
        BY <1>1, <1>5, OneChain
    <2>2. \A d \in Chains \ {c} : accPc'[d] = "none"
        BY <1>2, <2>1
    <2>3. CASE GetNewSidRead(c)
        BY <2>2, <2>3, <1>1, <1>3 DEF GetNewSidRead, FreshInv, UniqueSids
    <2>4. CASE GetNewSidWrite(c)
        <3>1. tmpSid[c] = lastSid /\ \A p \in Peers : sid[p] <= lastSid
            BY <1>5, <2>4 DEF GetNewSidWrite, FreshInv
        <3>2. lastSid' = lastSid + 1 /\ UNCHANGED <<sid, tmpSid>>
            BY <2>4, <3>1 DEF GetNewSidWrite
        <3>7. lastSid \in Int /\ \A p \in Peers : sid[p] \in Int
            OBVIOUS
        <3>3. \A p \in Peers : sid'[p] < lastSid' /\ sid'[p] <= lastSid'
            BY <3>1, <3>2, <3>7
        <3>4. accPc'[c] = "sidWritten"
            BY <2>4 DEF GetNewSidWrite
        <3>5. FreshInv'
            BY <2>2, <3>3, <3>4 DEF FreshInv
        <3>6. UniqueSids'
            BY <1>1, <3>2 DEF UniqueSids
        <3>. QED
            BY <1>3, <3>5, <3>6
    <2>5. CASE GetNewSidReturn(c)
        <3>1. \A p \in Peers : sid[p] < lastSid
            BY <1>5, <2>5 DEF GetNewSidReturn, FreshInv
        <3>2. sid' = [sid EXCEPT ![accPeer[c]] = lastSid]
              /\ UNCHANGED <<lastSid, tmpSid>>
            BY <2>5 DEF GetNewSidReturn
        <3>3. accPc'[c] = "connected"
            BY <2>5 DEF GetNewSidReturn
        <3>4. \A p \in Peers : sid'[p] <= lastSid'
            BY <3>1, <3>2
        <3>5. FreshInv'
            BY <2>2, <3>3, <3>4 DEF FreshInv
        <3>6. UniqueSids'
            BY <1>1, <1>5, <3>1, <3>2 DEF UniqueSids
        <3>. QED
            BY <1>3, <3>5, <3>6
    <2>6. CASE ~(GetNewSidRead(c) \/ GetNewSidWrite(c) \/ GetNewSidReturn(c))
        <3>1. /\ accPc'[c] \notin {"sidRead", "sidWritten"}
              /\ UNCHANGED <<lastSid, sid, tmpSid>>
            BY <2>6 DEF AcceptStep, AcceptCompletes, EndAccept, EndAborted,
                        BeginFirstRead, BeginNextAccept, OnClientConnected
        <3>2. FreshInv'
            BY <1>1, <2>2, <3>1 DEF FreshInv
        <3>3. UniqueSids'
            BY <1>1, <3>1 DEF UniqueSids
        <3>. QED
            BY <1>3, <3>2, <3>3
    <2>. QED
        BY <2>3, <2>4, <2>5, <2>6
<1>. QED
    BY <1>4, <1>5

(* A second Start lifts the promise; the other calls of the owner give and    *)
(* take no id.                                                                *)
LEMMA OwnerSid ==
    SidInv /\ OwnerStep => ChainInv' /\ FreshInv' /\ UniqueSids'
<1> SUFFICES ASSUME SidInv, OwnerStep
             PROVE  ChainInv' /\ FreshInv' /\ UniqueSids'
    OBVIOUS
<1> USE TransportAssumption DEF SidInv, TypeOK, ChainInv, FreshInv, UniqueSids
<1>1. CASE Start /\ ~disposed
    <2>1. /\ starts' = starts + 1
          /\ accPc' = [accPc EXCEPT ![starts + 1] = "pending"]
          /\ UNCHANGED <<lastSid, tmpSid, sid>>
        BY <1>1 DEF Start
    <2>2. ChainInv'
        BY <2>1 DEF Chains
    <2>3. \A d \in Chains : accPc'[d] \in {"sidRead", "sidWritten"} =>
              accPc'[d] = accPc[d]
        BY <2>1
    <2>4. starts' <= 1 => starts <= 1
        BY <2>1
    <2>. QED
        BY <2>1, <2>2, <2>3, <2>4
<1>2. CASE ~(Start /\ ~disposed)
    <2>1. UNCHANGED <<starts, lastSid, tmpSid, sid>>
        BY <1>2 DEF OwnerStep, Start, Stop, Dispose, StopListener, Send,
                    Disconnect, tvars, server, accept
    <2>2. \A d \in Chains : accPc'[d] = accPc[d]
                            \/ (accPc[d] # "none" /\ accPc'[d] = "aborted")
        BY <1>2 DEF OwnerStep, Start, Stop, Dispose, StopListener, Send,
                    Disconnect, tvars, server, accept
    <2>. QED
        BY <2>1, <2>2
<1>. QED
    BY <1>1, <1>2

(* Every step keeps the ids of one chain different.                           *)
LEMMA NextSid == SidInv /\ [Next]_tvars => SidInv'
<1> SUFFICES ASSUME SidInv, [Next]_tvars PROVE SidInv'
    OBVIOUS
<1>1. TypeOK'
    BY NextTyped DEF SidInv
<1>2. ASSUME UNCHANGED <<starts, lastSid, accPc, tmpSid, sid>> PROVE SidInv'
    BY <1>1, <1>2 DEF SidInv, ChainInv, FreshInv, UniqueSids
<1>3. CASE UNCHANGED tvars
    BY <1>2, <1>3 DEF tvars
<1>4. ASSUME NEW p \in Peers,
             \/ PeerStep(p) \/ ReadStep(p)
             \/ OnDatagramReceived(p) \/ OnClientDisconnected(p)
      PROVE  SidInv'
    <2>1. UNCHANGED <<starts, lastSid, accPc, tmpSid, sid>>
        BY <1>4 DEF PeerStep, PeerConnect, PeerSend, PeerClose, PeerReset,
                    ReadStep, ReadCompletes, ReadEnds, HandleDatagramReceived,
                    BeginNextRead, OnDatagramReceived, OnClientDisconnected,
                    server, accept
    <2>. QED
        BY <1>2, <2>1
<1>5. CASE OwnerStep
    BY <1>1, <1>5, OwnerSid DEF SidInv
<1>6. ASSUME NEW c \in Chains, AcceptStep(c) \/ OnClientConnected(c)
      PROVE  SidInv'
    BY <1>1, <1>6, AcceptSid DEF SidInv
<1>. QED
    BY <1>3, <1>4, <1>5, <1>6 DEF Next, CallbackStep

(* While Start has begun one accept chain only, two connections never share a *)
(* session id, although GetNewSid increments its counter without a lock.      *)
THEOREM TransportUniqueSids == Spec => []UniqueSids
<1>1. SidInv => UniqueSids
    BY DEF SidInv
<1>. QED
    BY <1>1, InitSid, NextSid, PTL DEF Spec


-----------------------------------------------------------------------------
(* Why an accept loop ends.                                                   *)

(* A connection of a running accept callback has not been dropped, ...        *)
HeldInv ==
    \A c \in Chains : accPc[c] \in OwnerPcs =>
        sock[accPeer[c]] \in {"accepted", "disconnected"}

(* ... and one without a read has delivered nothing.                          *)
UnreadInv == \A p \in Peers : rd[p] = "none" => taken[p] = 0 /\ got[p] = 0

(* The connections that an exception of an accept callback has cost.          *)
Wasted(p) ==
    \/ link[p] = "reset" /\ sock[p] = "dropped" /\ rd[p] = "none"
    \/ MayThrow(p) /\ rd[p] = "lost" /\ got[p] = 0

LoopInv ==
    listening /\ (\A c \in Chains : accPc[c] \notin LivePcs)
        => \E p \in Peers : Wasted(p)

WasteInv == OwnInv /\ HeldInv /\ UnreadInv /\ LoopInv

(* No chain has begun.                                                        *)
LEMMA InitWaste == Init => WasteInv
<1> SUFFICES ASSUME Init PROVE WasteInv
    OBVIOUS
<1>1. OwnInv
    BY InitOwn
<1>. QED
    BY <1>1 DEF Init, WasteInv, HeldInv, UnreadInv, LoopInv, OwnerPcs

(* A step that keeps the sockets, the accept chains and who has a read.       *)
LEMMA WasteFrame ==
    ASSUME WasteInv, UNCHANGED <<listening, accPc, accPeer, sock>>,
           \A p \in Peers : link[p] = "reset" => link'[p] = "reset",
           \A p \in Peers : rd'[p] = "none" => /\ rd[p] = "none"
                                               /\ taken'[p] = taken[p]
                                               /\ got'[p] = got[p],
           \A p \in Peers : rd[p] \in {"none", "lost"} =>
                                rd'[p] = rd[p] /\ got'[p] = got[p]
    PROVE  HeldInv' /\ UnreadInv' /\ LoopInv'
<1> USE DEF WasteInv
<1>1. HeldInv'
    BY DEF HeldInv
<1>2. UnreadInv'
    BY DEF UnreadInv
<1>3. \A p \in Peers : Wasted(p) => Wasted(p)'
    BY DEF Wasted, MayThrow
<1>4. LoopInv'
    BY <1>3 DEF LoopInv
<1>. QED
    BY <1>1, <1>2, <1>4

(* Start, Stop and the other calls of the owner.                              *)
LEMMA OwnerWaste ==
    ASSUME WasteInv, OwnerStep
    PROVE  HeldInv' /\ UnreadInv' /\ LoopInv'
<1> USE DEF WasteInv, OwnInv, TypeOK, network, receive, accept, server
<1>1. CASE Start
    <2>1. UNCHANGED <<accPeer, link, sock, rd, taken, got>>
        BY <1>1 DEF Start
    <2>2. \/ UNCHANGED <<listening, accPc>>
          \/ /\ starts < MaxStarts
             /\ accPc' = [accPc EXCEPT ![starts + 1] = "pending"]
        BY <1>1 DEF Start
    <2>3. CASE UNCHANGED <<listening, accPc>>
        BY <2>1, <2>3, WasteFrame
    <2>4. CASE /\ starts < MaxStarts
               /\ accPc' = [accPc EXCEPT ![starts + 1] = "pending"]
        <3>1. starts + 1 \in Chains
            BY <2>4, TransportAssumption DEF Chains
        <3>2. accPc'[starts + 1] = "pending"
            BY <2>4, <3>1
        <3>3. LoopInv'
            BY <3>1, <3>2 DEF LoopInv, LivePcs, AccPcs
        <3>4. \A c \in Chains : accPc'[c] \in OwnerPcs => accPc'[c] = accPc[c]
            BY <2>4 DEF OwnerPcs
        <3>5. HeldInv' /\ UnreadInv'
            BY <2>1, <3>4 DEF HeldInv, UnreadInv
        <3>. QED
            BY <3>3, <3>5
    <2>. QED
        BY <2>2, <2>3, <2>4
<1>2. ASSUME StopListener, UNCHANGED <<accPeer, rd, taken, got>>
      PROVE  HeldInv' /\ UnreadInv' /\ LoopInv'
    <2>1. LoopInv' /\ UnreadInv'
        BY <1>2 DEF StopListener, LoopInv, UnreadInv
    <2>2. ASSUME NEW c \in Chains, accPc'[c] \in OwnerPcs
          PROVE  sock'[accPeer[c]] \in {"accepted", "disconnected"}
        <3>1. accPc[c] \in OwnerPcs /\ accPc[c] # "completed"
            BY <1>2, <2>2 DEF StopListener, OwnerPcs
        <3>2. /\ accPeer[c] \in Peers
              /\ sock[accPeer[c]] \in {"accepted", "disconnected"}
            BY <3>1 DEF OwnedInv, HeldInv
        <3>3. ~Waiting(accPeer[c])
            <4>1. \A d \in Chains : accPc[d] = "completed" =>
                      accPeer[d] # accPeer[c]
                BY <3>1 DEF OneOwnerInv, OwnerPcs
            <4>. QED
                BY <3>2, <4>1 DEF Waiting
        <3>. QED
            BY <1>2, <3>2, <3>3 DEF StopListener
    <2>3. HeldInv'
        BY <1>2, <2>2 DEF HeldInv
    <2>. QED
        BY <2>1, <2>3
<1>3. CASE Stop
    BY <1>2, <1>3 DEF Stop
<1>4. CASE Dispose
    <2>1. UNCHANGED <<accPeer, rd, taken, got, link>>
        BY <1>4 DEF Dispose
    <2>2. StopListener \/ UNCHANGED <<listening, accPc, sock>>
        BY <1>4 DEF Dispose
    <2>. QED
        BY <1>2, <2>1, <2>2, WasteFrame
<1>5. ASSUME NEW p \in Peers, Disconnect(p)
      PROVE  HeldInv' /\ UnreadInv' /\ LoopInv'
    <2>1. /\ sock[p] = "accepted" /\ sock' = [sock EXCEPT ![p] = "disconnected"]
          /\ UNCHANGED <<listening, accPc, accPeer, link, rd, taken, got>>
        BY <1>5 DEF Disconnect
    <2>2. HeldInv' /\ UnreadInv'
        BY <2>1 DEF HeldInv, UnreadInv, OwnedInv
    <2>3. \A q \in Peers : Wasted(q) => Wasted(q)'
        BY <2>1 DEF Wasted, MayThrow
    <2>4. LoopInv'
        BY <2>1, <2>3 DEF LoopInv
    <2>. QED
        BY <2>2, <2>4
<1>6. ASSUME NEW p \in Peers, Send(p)
      PROVE  HeldInv' /\ UnreadInv' /\ LoopInv'
    BY <1>6, WasteFrame DEF Send, tvars
<1>. QED
    BY <1>1, <1>3, <1>4, <1>5, <1>6 DEF OwnerStep

(* A chain of accepts and its callback.                                       *)
LEMMA AcceptWaste ==
    ASSUME WasteInv, NEW c \in Chains, AcceptStep(c) \/ OnClientConnected(c)
    PROVE  HeldInv' /\ UnreadInv' /\ LoopInv'
<1> USE DEF WasteInv, OwnInv, TypeOK, network, receive, accept, server
<1>1. CASE AcceptCompletes(c)
    <2>1. PICK p \in Peers : /\ sock[p] = "queued"
                             /\ sock' = [sock EXCEPT ![p] = "accepted"]
                             /\ accPeer' = [accPeer EXCEPT ![c] = p]
        BY <1>1 DEF AcceptCompletes
    <2>2. /\ accPc' = [accPc EXCEPT ![c] = "completed"]
          /\ UNCHANGED <<listening, link, rd, taken, got>>
        BY <1>1 DEF AcceptCompletes
    <2>3. HeldInv'
        BY <2>1, <2>2 DEF HeldInv
    <2>4. UnreadInv'
        BY <2>2 DEF UnreadInv
    <2>5. LoopInv'
        BY <2>2 DEF LoopInv, LivePcs, AccPcs
    <2>. QED
        BY <2>3, <2>4, <2>5
<1>2. ASSUME accPc[c] \in OwnerPcs, NEW n \in OwnerPcs,
             accPc' = [accPc EXCEPT ![c] = n],
             UNCHANGED <<listening, accPeer, link, sock, rd, taken, got>>
      PROVE  HeldInv' /\ UnreadInv' /\ LoopInv'
    <2>1. HeldInv' /\ UnreadInv'
        BY <1>2 DEF HeldInv, UnreadInv
    <2>2. LoopInv'
        BY <1>2 DEF LoopInv, LivePcs, AccPcs, OwnerPcs
    <2>. QED
        BY <2>1, <2>2
<1>3. CASE EndAccept(c)
    <2>1. CASE accPc' = [accPc EXCEPT ![c] = "accepted"] /\ UNCHANGED sock
        BY <1>2, <1>3, <2>1 DEF EndAccept, OwnerPcs
    <2>2. CASE /\ link[accPeer[c]] = "reset"
               /\ accPc' = [accPc EXCEPT ![c] = "dead"]
               /\ sock' = [sock EXCEPT ![accPeer[c]] = "dropped"]
        <3>1. /\ accPc[c] = "completed"
              /\ UNCHANGED <<listening, accPeer, link, rd, taken, got>>
            BY <1>3 DEF EndAccept
        <3>2. accPeer[c] \in Peers /\ rd[accPeer[c]] = "none"
            BY <3>1 DEF OwnedInv, OwnerPcs
        <3>3. Wasted(accPeer[c])'
            BY <2>2, <3>1, <3>2 DEF Wasted
        <3>4. LoopInv' /\ UnreadInv'
            BY <3>1, <3>2, <3>3 DEF LoopInv, UnreadInv
        <3>5. HeldInv'
            BY <2>2, <3>1, <3>2 DEF HeldInv, OneOwnerInv, OwnerPcs
        <3>. QED
            BY <3>4, <3>5
    <2>. QED
        BY <1>3, <2>1, <2>2 DEF EndAccept
<1>4. CASE EndAborted(c)
    <2>1. /\ accPc[c] = "aborted" /\ accPc' = [accPc EXCEPT ![c] = "dead"]
          /\ UNCHANGED <<listening, accPeer, link, sock, rd, taken, got>>
        BY <1>4 DEF EndAborted
    <2>2. HeldInv' /\ UnreadInv'
        BY <2>1 DEF HeldInv, UnreadInv, OwnerPcs
    <2>3. LoopInv'
        BY <2>1 DEF LoopInv, LivePcs, AccPcs, Wasted, MayThrow
    <2>. QED
        BY <2>2, <2>3
<1>5. CASE \/ GetNewSidRead(c) \/ GetNewSidWrite(c) \/ GetNewSidReturn(c)
           \/ OnClientConnected(c)
    BY <1>2, <1>5 DEF GetNewSidRead, GetNewSidWrite, GetNewSidReturn,
       OnClientConnected, OwnerPcs
<1>6. CASE BeginFirstRead(c)
    <2>1. PICK w \in {"posted", "lost"}, n \in {"repost", "dead"} :
            /\ accPc[c] = "begin" /\ accPc' = [accPc EXCEPT ![c] = n]
            /\ rd' = [rd EXCEPT ![accPeer[c]] = w]
            /\ n = "dead" => w = "lost" /\ MayThrow(accPeer[c])
            /\ UNCHANGED <<listening, accPeer, link, sock, taken, got>>
        BY <1>6 DEF BeginFirstRead
    <2>2. accPeer[c] \in Peers /\ rd[accPeer[c]] = "none"
        BY <2>1 DEF OwnedInv, OwnerPcs
    <2>3. HeldInv' /\ UnreadInv'
        BY <2>1, <2>2 DEF HeldInv, UnreadInv, OwnerPcs
    <2>4. got[accPeer[c]] = 0
        BY <2>2 DEF UnreadInv
    <2>5. CASE n = "dead"
        <3>1. Wasted(accPeer[c])'
            BY <2>1, <2>2, <2>4, <2>5 DEF Wasted, MayThrow
        <3>. QED
            BY <2>1, <2>2, <2>3, <3>1 DEF LoopInv
    <2>6. CASE n = "repost"
        BY <2>1, <2>3, <2>6 DEF LoopInv, LivePcs, AccPcs
    <2>. QED
        BY <2>5, <2>6
<1>7. CASE BeginNextAccept(c)
    <2>1. /\ accPc' = [accPc EXCEPT ![c] = IF listening THEN "pending"
                                                        ELSE "dead"]
          /\ accPeer' = [accPeer EXCEPT ![c] = NoPeer]
          /\ UNCHANGED <<listening, link, sock, rd, taken, got>>
        BY <1>7 DEF BeginNextAccept
    <2>2. HeldInv' /\ UnreadInv'
        BY <2>1 DEF HeldInv, UnreadInv, OwnerPcs
    <2>3. LoopInv'
        BY <2>1 DEF LoopInv, LivePcs, AccPcs
    <2>. QED
        BY <2>2, <2>3
<1>. QED
    BY <1>1, <1>3, <1>4, <1>5, <1>6, <1>7 DEF AcceptStep

(* Peers and the read chains.                                                 *)
LEMMA PeerWaste ==
    ASSUME WasteInv, NEW p \in Peers,
           \/ PeerStep(p) \/ ReadStep(p)
           \/ OnDatagramReceived(p) \/ OnClientDisconnected(p)
    PROVE  HeldInv' /\ UnreadInv' /\ LoopInv'
<1> USE DEF WasteInv, OwnInv, TypeOK, network, receive, accept, server
<1>1. CASE PeerConnect(p)
    <2>1. /\ link[p] = "none" /\ sock' = [sock EXCEPT ![p] = "queued"]
          /\ link' = [link EXCEPT ![p] = "open"]
          /\ UNCHANGED <<listening, accPc, accPeer, rd, taken, got>>
        BY <1>1 DEF PeerConnect
    <2>2. sock[p] = "none"
        BY <2>1 DEF BacklogInv
    <2>3. HeldInv' /\ UnreadInv'
        BY <2>1, <2>2 DEF HeldInv, UnreadInv, OwnedInv
    <2>4. \A q \in Peers : Wasted(q) => Wasted(q)'
        BY <2>1, <2>2 DEF Wasted, MayThrow
    <2>5. LoopInv'
        BY <2>1, <2>4 DEF LoopInv
    <2>. QED
        BY <2>3, <2>5
<1>2. CASE PeerSend(p) \/ PeerClose(p) \/ PeerReset(p)
    <2>1. /\ UNCHANGED <<listening, accPc, accPeer, sock, rd, taken, got>>
          /\ \A q \in Peers : link[q] = "reset" => link'[q] = "reset"
        BY <1>2 DEF PeerSend, PeerClose, PeerReset
    <2>. QED
        BY <2>1, WasteFrame
<1>3. CASE ReadStep(p) \/ OnDatagramReceived(p) \/ OnClientDisconnected(p)
    <2>1. /\ UNCHANGED <<listening, accPc, accPeer, link, sock>>
          /\ rd[p] \notin {"none", "lost"} /\ rd'[p] # "none"
          /\ \A q \in Peers : q # p =>
                rd'[q] = rd[q] /\ taken'[q] = taken[q] /\ got'[q] = got[q]
        BY <1>3 DEF ReadStep, ReadCompletes, ReadEnds, HandleDatagramReceived,
           BeginNextRead, OnDatagramReceived, OnClientDisconnected
    <2>. QED
        BY <2>1, WasteFrame
<1>. QED
    BY <1>1, <1>2, <1>3 DEF PeerStep

(* Every step keeps the invariant of the dead chains.                         *)
LEMMA NextWaste == WasteInv /\ [Next]_tvars => WasteInv'
<1> SUFFICES ASSUME WasteInv, [Next]_tvars PROVE WasteInv'
    OBVIOUS
<1>1. OwnInv'
    BY NextOwn DEF WasteInv
<1>2. CASE UNCHANGED tvars
    BY <1>1, <1>2, WasteFrame DEF WasteInv, tvars
<1>3. CASE Next
    BY <1>1, <1>3, OwnerWaste, AcceptWaste, PeerWaste
       DEF WasteInv, Next, CallbackStep
<1>. QED
    BY <1>2, <1>3

(* While the server listens, its accept loop ends only by an exception for a  *)
(* connection that was aborted before its first BeginRead                     *)
(* (NetFrame.cs:186-202).                                                     *)
THEOREM TransportLoopEndsByAbort == Spec => []AcceptLoopEndsByAbort
<1>1. WasteInv => AcceptLoopEndsByAbort
    BY DEF WasteInv, UnreadInv, LoopInv, Wasted, MayThrow, AcceptLoopEndsByAbort
<1>. QED
    BY <1>1, InitWaste, NextWaste, PTL DEF Spec
=============================================================================
