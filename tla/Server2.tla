------------------------------- MODULE Server2 -------------------------------
(* TestRayTrace.unity/Assets/Net/Test2.cs: accept and receive callbacks on    *)
(* pool threads that all use the one field _buffer.  Each callback assigns    *)
(* the field, and reads it again for the next receive and for its packet, so  *)
(* what it finds there may be what another connection's callback has put.     *)
EXTENDS Integers, Sequences, FiniteSets

CONSTANTS Clients,   \* the connections clients make
          NoClient,
          MaxBytes,  \* bound: bytes one client sends
          BufLen     \* length of the arrays

ASSUME Server2Assumption ==
    /\ IsFiniteSet(Clients)
    /\ NoClient \notin Clients
    /\ MaxBytes \in Nat
    /\ BufLen \in Nat \ {0}

(* Arrays that the field or a receive refers to; the others are garbage.      *)
Arrays == 1..(Cardinality(Clients) + 2)
Zero == <<NoClient, 0>>
Zeros == [i \in 1..BufLen |-> Zero]

VARIABLES
    field,    \* the array that _buffer refers to
    content,  \* array -> its bytes, each by client and number
    accepter, \* where the accept operation or AcceptedCallback stands
    accepted, \* the connection the accept operation completed with
    receiver, \* client -> where the receive or ReceivedCallback stands
    array,    \* client -> the array its posted receive fills, 0 for an empty one
    link,     \* client -> the connection as the client left it
    queued,   \* connections in the backlog
    sent,     \* client -> bytes it has sent
    taken,    \* client -> bytes completed receives have taken
    size,     \* client -> bufferSize, the result of its last receive
    packet    \* client -> the packet its last callback made

vars == <<field, content, accepter, accepted, receiver, array, link, queued,
          sent, taken, size, packet>>

network == <<link, queued, sent>>
receive == <<receiver, array, taken, size, packet>>

Init ==
    /\ field = 1
    /\ content = [a \in Arrays |-> Zeros]
    /\ accepter = "pending"
    /\ accepted = NoClient
    /\ receiver = [c \in Clients |-> "none"]
    /\ array = [c \in Clients |-> 0]
    /\ link = [c \in Clients |-> "none"]
    /\ queued = {}
    /\ sent = [c \in Clients |-> 0]
    /\ taken = [c \in Clients |-> 0]
    /\ size = [c \in Clients |-> 0]
    /\ packet = [c \in Clients |-> <<>>]

-----------------------------------------------------------------------------
(* The clients.                                                               *)
Connect(c) ==
    /\ link[c] = "none"
    /\ link' = [link EXCEPT ![c] = "open"]
    /\ queued' = queued \cup {c}
    /\ UNCHANGED <<field, content, accepter, accepted, sent, receive>>

SendByte(c) ==
    /\ link[c] = "open"
    /\ sent[c] < MaxBytes
    /\ sent' = [sent EXCEPT ![c] = @ + 1]
    /\ UNCHANGED <<field, content, accepter, accepted, link, queued, receive>>

Close(c) ==
    /\ link[c] = "open"
    /\ link' = [link EXCEPT ![c] = "closed"]
    /\ UNCHANGED <<field, content, accepter, accepted, queued, sent, receive>>

Reset(c) ==
    /\ link[c] \in {"open", "closed"}
    /\ link' = [link EXCEPT ![c] = "reset"]
    /\ UNCHANGED <<field, content, accepter, accepted, queued, sent, receive>>

-----------------------------------------------------------------------------
(* new byte[61144], assigned to the field: an array nobody else refers to.    *)
Free == {a \in Arrays : a # field /\ \A c \in Clients : array[c] # a}

AllocateField ==
    LET a == CHOOSE b \in Free : TRUE
    IN  /\ field' = a
        /\ content' = [content EXCEPT ![a] = Zeros]

(* Accept and AcceptedCallback.  Every path through the callback, the catch   *)
(* block included, ends in Accept.                                            *)
AcceptCompletes ==
    /\ accepter = "pending"
    /\ \E c \in queued : accepted' = c /\ queued' = queued \ {c}
    /\ accepter' = "callback"
    /\ UNCHANGED <<field, content, link, sent, receive>>

(* Mutant: Accept is left out of the catch block.                             *)
AcceptedGoneStops ==
    /\ accepter = "callback"
    /\ link[accepted] = "reset"
    /\ receiver' = [receiver EXCEPT ![accepted] = "closed"]
    /\ accepter' = "stopped"
    /\ accepted' = NoClient
    /\ UNCHANGED <<field, content, network, array, taken, size, packet>>

(* EndAccept throws or the socket is not connected.                           *)
AcceptedGone ==
    /\ accepter = "callback"
    /\ link[accepted] = "reset"
    /\ receiver' = [receiver EXCEPT ![accepted] = "closed"]
    /\ accepter' = "pending"
    /\ accepted' = NoClient
    /\ UNCHANGED <<field, content, network, array, taken, size, packet>>

AcceptedNewBuffer ==
    /\ accepter = "callback"
    /\ AllocateField
    /\ accepter' = "receive"
    /\ UNCHANGED <<accepted, network, receive>>

(* The first receive asks for no bytes and has an array of its own.           *)
AcceptedBeginReceive ==
    /\ accepter = "receive"
    /\ \/ receiver' = [receiver EXCEPT ![accepted] = "posted"]
       \/ /\ link[accepted] = "reset"
          /\ receiver' = [receiver EXCEPT ![accepted] = "closed"]
    /\ accepter' = "pending"
    /\ accepted' = NoClient
    /\ UNCHANGED <<field, content, network, array, taken, size, packet>>

-----------------------------------------------------------------------------
(* A receive completes: an empty one at once, another with bytes or, at the   *)
(* end of the stream, without.                                                *)
Fill(a, c, n) ==
    [content EXCEPT ![a] = [i \in 1..BufLen |->
        IF i <= n THEN <<c, taken[c] + i>> ELSE content[a][i]]]

ReceiveCompletes(c) ==
    /\ receiver[c] = "posted"
    /\ link[c] # "reset"
    /\ \E n \in 0..BufLen :
         /\ IF array[c] = 0 THEN n = 0
            ELSE IF n = 0 THEN link[c] = "closed" /\ taken[c] = sent[c]
            ELSE taken[c] + n <= sent[c]
         /\ content' = IF n = 0 THEN content ELSE Fill(array[c], c, n)
         /\ taken' = [taken EXCEPT ![c] = @ + n]
         /\ size' = [size EXCEPT ![c] = n]
    /\ receiver' = [receiver EXCEPT ![c] = "callback"]
    /\ UNCHANGED <<field, accepter, accepted, network, array, packet>>

(* ... or with an error; then ReceivedCallback closes the socket, as it does  *)
(* when a call throws a SocketException.                                      *)
ReceiveFails(c) ==
    /\ receiver[c] \in {"posted", "callback", "new", "receive"}
    /\ link[c] = "reset"
    /\ receiver' = [receiver EXCEPT ![c] = "closed"]
    /\ array' = [array EXCEPT ![c] = 0]
    /\ UNCHANGED <<field, content, accepter, accepted, network, taken, size,
                   packet>>

(* ReceivedCallback: bufferSize bytes of the field's array are the packet.    *)
ReceivedCopy(c) ==
    /\ receiver[c] = "callback"
    /\ packet' = [packet EXCEPT ![c] = SubSeq(content[field], 1, size[c])]
    /\ array' = [array EXCEPT ![c] = 0]
    /\ receiver' = [receiver EXCEPT ![c] = "new"]
    /\ UNCHANGED <<field, content, accepter, accepted, network, taken,
                   size>>

ReceivedNewBuffer(c) ==
    /\ receiver[c] = "new"
    /\ AllocateField
    /\ receiver' = [receiver EXCEPT ![c] = "receive"]
    /\ UNCHANGED <<accepter, accepted, network, array, taken, size,
                   packet>>

(* Mutant: the next receive is posted into a second array.                    *)
ReceivedBeginOther(c) ==
    /\ receiver[c] = "receive"
    /\ receiver' = [receiver EXCEPT ![c] = "posted"]
    /\ array' = [array EXCEPT ![c] = CHOOSE a \in Free : TRUE]
    /\ UNCHANGED <<field, content, accepter, accepted, network, taken, size,
                   packet>>

ReceivedBeginReceive(c) ==
    /\ receiver[c] = "receive"
    /\ receiver' = [receiver EXCEPT ![c] = "posted"]
    /\ array' = [array EXCEPT ![c] = field]
    /\ UNCHANGED <<field, content, accepter, accepted, network, taken, size,
                   packet>>

-----------------------------------------------------------------------------
AcceptStep == \/ AcceptCompletes \/ AcceptedGone \/ AcceptedNewBuffer
              \/ AcceptedBeginReceive

ReceiveStep(c) == \/ ReceiveCompletes(c) \/ ReceiveFails(c) \/ ReceivedCopy(c)
                  \/ ReceivedNewBuffer(c) \/ ReceivedBeginReceive(c)

ClientStep(c) == Connect(c) \/ SendByte(c) \/ Close(c) \/ Reset(c)

Next == AcceptStep \/ \E c \in Clients : ClientStep(c) \/ ReceiveStep(c)

Spec == Init /\ [][Next]_vars

(* The pool runs every callback.                                              *)
FairSpec == /\ Spec
            /\ WF_vars(AcceptStep)
            /\ \A c \in Clients : WF_vars(ReceiveStep(c))

-----------------------------------------------------------------------------
(* Every variable has its type.                                               *)
Bytes == (Clients \X (1..MaxBytes)) \cup {Zero}

TypeOK ==
    /\ field \in Arrays
    /\ content \in [Arrays -> [1..BufLen -> Bytes]]
    /\ accepter \in {"pending", "callback", "receive"}
    /\ accepted \in Clients \cup {NoClient}
    /\ receiver \in [Clients -> {"none", "posted", "callback", "new",
                                 "receive", "closed"}]
    /\ array \in [Clients -> Arrays \cup {0}]
    /\ link \in [Clients -> {"none", "open", "closed", "reset"}]
    /\ queued \in SUBSET Clients
    /\ sent \in [Clients -> 0..MaxBytes]
    /\ taken \in [Clients -> 0..MaxBytes]
    /\ size \in [Clients -> 0..BufLen]
    /\ packet \in [Clients -> Seq(Bytes)]

(* Test2.cs:67 logs the packet just made as one "from" the client of the      *)
(* connection: it consists of the bytes the receive has taken from that       *)
(* client.  True for a single connection, not for two.                        *)
PacketsAreTheClients ==
    \A c \in Clients :
        receiver[c] = "new" =>
            packet[c] = [i \in 1..size[c] |-> <<c, taken[c] - size[c] + i>>]

(* As long as only one connection was ever accepted, no packet is wrong: the *)
(* array filled by its receive is still the one in the field when the         *)
(* callback copies it.                                                        *)
AloneIsRight ==
    Cardinality({c \in Clients : receiver[c] # "none" \/ accepted = c}) <= 1
        => PacketsAreTheClients

(* The accept chain survives connections that are reset while they are being  *)
(* accepted: every connection in the backlog is accepted (Test2.cs:50-55).    *)
ConnectionsAreAccepted ==
    \A c \in Clients : c \in queued ~> receiver[c] # "none"
=============================================================================
