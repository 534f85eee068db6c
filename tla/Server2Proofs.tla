---------------------------- MODULE Server2Proofs ----------------------------
(* Theorems about Server2, for any number of connections and bytes and any    *)
(* length of the arrays.                                                      *)
EXTENDS Server2, FiniteSetTheorems, SequenceTheorems, TLAPS

(* There is always an array nobody refers to: every connection refers to one  *)
(* at most, and the field to one more.                                        *)
LEMMA ArraysSuffice ==
    ASSUME field \in Arrays, array \in [Clients -> Arrays \cup {0}]
    PROVE  Free # {} /\ Free \subseteq Arrays
<1> USE Server2Assumption
<1> DEFINE n == Cardinality(Clients)
           used == {array[c] : c \in Clients}
<1>1. n \in Nat
    BY FS_CardinalityType
<1>2. IsFiniteSet(used) /\ Cardinality(used) <= n
    <2>1. array \in Surjection(Clients, used)
        BY DEF Surjection
    <2>. QED
        BY <2>1, FS_Surjection
<1>3. IsFiniteSet(Arrays) /\ Cardinality(Arrays) = n + 2
    BY <1>1, FS_Interval DEF Arrays
<1> HIDE DEF used
<1>4. /\ IsFiniteSet(used \cup {field})
      /\ Cardinality(used \cup {field}) <= n + 1
    <2>1. Cardinality(used) \in Nat
        BY <1>2, FS_CardinalityType
    <2>2. /\ IsFiniteSet(used \cup {field})
          /\ Cardinality(used \cup {field}) =
               IF field \in used THEN Cardinality(used)
                                 ELSE Cardinality(used) + 1
        BY <1>2, FS_AddElement
    <2>. QED
        BY <1>1, <1>2, <2>1, <2>2
<1>5. ~(Arrays \subseteq used \cup {field})
    <2>1. SUFFICES ASSUME Arrays \subseteq used \cup {field} PROVE FALSE
        OBVIOUS
    <2>2. Cardinality(Arrays) <= Cardinality(used \cup {field})
        BY <1>4, <2>1, FS_Subset
    <2>3. Cardinality(used \cup {field}) \in Nat
        BY <1>4, FS_CardinalityType
    <2>. QED
        BY <1>1, <1>3, <1>4, <2>2, <2>3
<1>6. PICK a \in Arrays : a \notin used /\ a # field
    BY <1>5
<1>7. a \in Free
    BY <1>6 DEF used, Free
<1>. QED
    BY <1>7 DEF Free

(* The constants' sets.                                                       *)
LEMMA Shapes ==
    /\ Arrays \subseteq Nat \ {0} /\ 1 \in Arrays
    /\ Zeros \in [1..BufLen -> Bytes]
    /\ <<>> \in Seq(Bytes)
<1>1. Cardinality(Clients) \in Nat
    BY Server2Assumption, FS_CardinalityType
<1>. QED
    BY <1>1 DEF Arrays, Zeros, Bytes

(* At first.                                                                  *)
LEMMA InitTyped == Init => TypeOK
BY Shapes, Server2Assumption DEF Init, TypeOK

(* A fresh array becomes the field's.                                         *)
LEMMA AllocateTyped ==
    ASSUME TypeOK, AllocateField
    PROVE  field' \in Arrays /\ content' \in [Arrays -> [1..BufLen -> Bytes]]
<1> DEFINE a == CHOOSE b \in Free : TRUE
<1>1. a \in Free /\ Free \subseteq Arrays
    BY ArraysSuffice DEF TypeOK
<1>2. field' = a /\ content' = [content EXCEPT ![a] = Zeros]
    BY DEF AllocateField
<1> HIDE DEF a
<1>. QED
    BY <1>1, <1>2, Shapes DEF TypeOK

(* The bytes a receive puts into its array are numbered from the last one.    *)
LEMMA ReceiveTyped ==
    ASSUME TypeOK, NEW c \in Clients, ReceiveCompletes(c)
    PROVE  TypeOK'
<1> USE Server2Assumption DEF TypeOK, network
<1>1. PICK n \in 0..BufLen :
        /\ IF array[c] = 0 THEN n = 0
           ELSE IF n = 0 THEN link[c] = "closed" /\ taken[c] = sent[c]
           ELSE taken[c] + n <= sent[c]
        /\ content' = IF n = 0 THEN content ELSE Fill(array[c], c, n)
        /\ taken' = [taken EXCEPT ![c] = taken[c] + n]
        /\ size' = [size EXCEPT ![c] = n]
    BY DEF ReceiveCompletes
<1>2. /\ receiver' = [receiver EXCEPT ![c] = "callback"]
      /\ UNCHANGED <<field, accepter, accepted, array, packet, link, queued,
                     sent>>
    BY DEF ReceiveCompletes
<1>3. taken[c] + n \in 0..MaxBytes
    BY <1>1
<1>4. content' \in [Arrays -> [1..BufLen -> Bytes]]
    <2>1. CASE n = 0
        BY <1>1, <2>1
    <2>2. CASE n # 0
        <3>1. array[c] \in Arrays /\ taken[c] + n <= MaxBytes
            BY <1>1, <1>3, <2>2
        <3>2. \A i \in 1..BufLen : i <= n => <<c, taken[c] + i>> \in Bytes
            BY <3>1 DEF Bytes
        <3>3. [i \in 1..BufLen |-> IF i <= n THEN <<c, taken[c] + i>>
                                   ELSE content[array[c]][i]]
                 \in [1..BufLen -> Bytes]
            BY <3>1, <3>2
        <3>. QED
            BY <1>1, <2>2, <3>1, <3>3 DEF Fill
    <2>. QED
        BY <2>1, <2>2
<1>. QED
    BY <1>1, <1>2, <1>3, <1>4

(* A packet is a portion of the field's array.                                *)
LEMMA PacketIsPrefix ==
    ASSUME TypeOK, NEW c \in Clients
    PROVE  /\ SubSeq(content[field], 1, size[c]) \in Seq(Bytes)
           /\ SubSeq(content[field], 1, size[c]) =
                [i \in 1..size[c] |-> content[field][i]]
<1> DEFINE s == content[field]
           n == size[c]
<1>1. s \in [1..BufLen -> Bytes] /\ n \in 0..BufLen /\ BufLen \in Nat
    BY Server2Assumption DEF TypeOK
<1> HIDE DEF s, n
<1>2. s \in Seq(Bytes) /\ Len(s) = BufLen
    BY <1>1
<1>3. \A i \in 1..n : s[i] \in Bytes
    BY <1>1
<1>4. /\ SubSeq(s, 1, n) \in Seq(Bytes)
      /\ Len(SubSeq(s, 1, n)) = n
      /\ \A i \in 1..n : SubSeq(s, 1, n)[i] = s[i]
    <2>1. /\ SubSeq(s, 1, n) \in Seq(Bytes)
          /\ Len(SubSeq(s, 1, n)) = IF 1 <= n THEN n - 1 + 1 ELSE 0
          /\ \A i \in 1..(n - 1 + 1) : SubSeq(s, 1, n)[i] = s[1 + i - 1]
        BY <1>1, <1>3, SubSeqProperties
    <2>. QED
        BY <1>1, <2>1
<1>5. SubSeq(s, 1, n) = [i \in 1..n |-> s[i]]
    BY <1>4
<1>. QED
    BY <1>4, <1>5 DEF s, n

(* Every step keeps the types.                                                *)
LEMMA NextTyped == TypeOK /\ [Next]_vars => TypeOK'
<1> SUFFICES ASSUME TypeOK, [Next]_vars PROVE TypeOK'
    OBVIOUS
<1> USE Server2Assumption DEF TypeOK, network, receive
<1>1. CASE UNCHANGED vars
    BY <1>1 DEF vars
<1>2. CASE AcceptCompletes \/ AcceptedGone \/ AcceptedBeginReceive
    BY <1>2 DEF AcceptCompletes, AcceptedGone, AcceptedBeginReceive
<1>3. CASE AcceptedNewBuffer
    BY <1>3, AllocateTyped DEF AcceptedNewBuffer
<1>4. ASSUME NEW c \in Clients, ClientStep(c)
      PROVE  TypeOK'
    <2>1. CASE Connect(c) \/ Close(c) \/ Reset(c)
        <3>1. link' \in [Clients -> {"none", "open", "closed", "reset"}]
            BY <2>1 DEF Connect, Close, Reset
        <3>2. queued' \in SUBSET Clients
            BY <2>1 DEF Connect, Close, Reset
        <3>. QED
            BY <2>1, <3>1, <3>2 DEF Connect, Close, Reset
    <2>2. CASE SendByte(c)
        <3>1. sent' = [sent EXCEPT ![c] = sent[c] + 1] /\ sent[c] < MaxBytes
            BY <2>2 DEF SendByte
        <3>2. sent' \in [Clients -> 0..MaxBytes]
            BY <3>1
        <3>. QED
            BY <2>2, <3>2 DEF SendByte
    <2>. QED
        BY <1>4, <2>1, <2>2 DEF ClientStep
<1>5. ASSUME NEW c \in Clients, ReceiveStep(c)
      PROVE  TypeOK'
    <2>1. CASE ReceiveCompletes(c)
        BY <2>1, ReceiveTyped
    <2>2. CASE ReceiveFails(c) \/ ReceivedBeginReceive(c)
        <3>1. /\ receiver' \in [Clients -> {"none", "posted", "callback",
                                           "new", "receive", "closed"}]
              /\ array' \in [Clients -> Arrays \cup {0}]
            <4>1. PICK r \in {"posted", "closed"}, a \in Arrays \cup {0} :
                    /\ receiver' = [receiver EXCEPT ![c] = r]
                    /\ array' = [array EXCEPT ![c] = a]
                BY <2>2 DEF ReceiveFails, ReceivedBeginReceive
            <4>. QED
                BY <4>1
        <3>2. UNCHANGED <<field, content, accepter, accepted, link, queued,
                          sent, taken, size, packet>>
            BY <2>2 DEF ReceiveFails, ReceivedBeginReceive
        <3>. QED
            BY <3>1, <3>2
    <2>3. CASE ReceivedCopy(c)
        BY <2>3, PacketIsPrefix DEF ReceivedCopy
    <2>4. CASE ReceivedNewBuffer(c)
        BY <2>4, AllocateTyped DEF ReceivedNewBuffer
    <2>. QED
        BY <1>5, <2>1, <2>2, <2>3, <2>4 DEF ReceiveStep
<1>. QED
    BY <1>1, <1>2, <1>3, <1>4, <1>5 DEF Next, AcceptStep

(* Every variable of the server keeps its type: there is always a free array, *)
(* and a packet is made of bytes that a client sent, or of zeros              *)
(* (Test2.cs:34-80).                                                          *)
THEOREM Server2Typed == Spec => []TypeOK
BY InitTyped, NextTyped, PTL DEF Spec


-----------------------------------------------------------------------------
(* One connection alone.                                                      *)

(* The connections accepted so far; there is never one less.                  *)
Seen == {c \in Clients : receiver[c] # "none" \/ accepted = c}
Alone == \A c, d \in Seen : c = d

(* A connection has no receive before it is accepted, and no array before it  *)
(* has a receive.                                                             *)
FreshInv ==
    /\ \A c \in Clients : receiver[c] = "none" => array[c] = 0
    /\ \A c \in Clients : link[c] = "none" => /\ receiver[c] = "none"
                                              /\ accepted # c
                                              /\ c \notin queued
    /\ \A c \in queued : receiver[c] = "none" /\ accepted # c
    /\ accepted # NoClient => receiver[accepted] = "none"
    /\ accepter # "pending" => accepted # NoClient

(* As long as it is alone, its receive fills the array that is in the field,  *)
(* so the last bytes it took are at the front of that array.                  *)
RightInv(c) ==
    /\ receiver[c] = "posted" => array[c] \in {0, field}
    /\ receiver[c] = "callback" =>
         \A i \in 1..size[c] : content[field][i] = <<c, taken[c] - size[c] + i>>
    /\ receiver[c] = "new" =>
         packet[c] = [i \in 1..size[c] |-> <<c, taken[c] - size[c] + i>>]

AloneInv == TypeOK /\ FreshInv /\ (Alone => \A c \in Seen : RightInv(c))

(* No connection was accepted at first.                                       *)
LEMMA InitAlone == Init => AloneInv
<1> SUFFICES ASSUME Init PROVE AloneInv
    OBVIOUS
<1>1. TypeOK
    BY InitTyped
<1>2. Seen = {}
    BY Server2Assumption DEF Init, Seen
<1>. QED
    BY <1>1, <1>2, Server2Assumption DEF Init, AloneInv, FreshInv

(* The accept chain brings a connection in, or a receive to it.               *)
LEMMA AcceptAlone ==
    ASSUME AloneInv, AcceptStep
    PROVE  FreshInv' /\ (Alone' => \A c \in Seen' : RightInv(c)')
<1> USE Server2Assumption DEF AloneInv, TypeOK, FreshInv, network, receive
<1>1. CASE AcceptCompletes
    <2>1. PICK c \in queued : accepted' = c /\ queued' = queued \ {c}
        BY <1>1 DEF AcceptCompletes
    <2>2. /\ accepter' = "callback"
          /\ UNCHANGED <<field, content, link, receiver, array>>
        BY <1>1 DEF AcceptCompletes
    <2>3. FreshInv'
        BY <2>1, <2>2
    <2>4. c \in Seen' /\ receiver'[c] = "none"
        BY <2>1, <2>2 DEF Seen
    <2>5. RightInv(c)'
        BY <2>4 DEF RightInv
    <2>. QED
        BY <2>3, <2>4, <2>5 DEF Alone
<1>2. CASE AcceptedGone
    <2>1. /\ accepter = "callback" /\ link[accepted] = "reset"
          /\ receiver' = [receiver EXCEPT ![accepted] = "closed"]
          /\ accepter' = "pending" /\ accepted' = NoClient
          /\ UNCHANGED <<field, content, link, queued, array, taken, size,
                         packet>>
        BY <1>2 DEF AcceptedGone
    <2>2. accepted \in Clients /\ Seen' = Seen
        BY <2>1 DEF Seen
    <2>3. FreshInv'
        BY <2>1, <2>2
    <2>4. \A c \in Seen : RightInv(c) => RightInv(c)'
        BY <2>1, <2>2 DEF RightInv, Seen
    <2>. QED
        BY <2>2, <2>3, <2>4 DEF Alone
<1>3. CASE AcceptedNewBuffer
    <2>1. PICK c \in Clients : c = accepted
        BY <1>3 DEF AcceptedNewBuffer
    <2>2. c \in Seen' /\ receiver'[c] = "none"
        BY <1>3, <2>1 DEF AcceptedNewBuffer, Seen
    <2>3. FreshInv'
        BY <1>3 DEF AcceptedNewBuffer
    <2>4. RightInv(c)'
        BY <2>2 DEF RightInv
    <2>. QED
        BY <2>2, <2>3, <2>4 DEF Alone
<1>4. CASE AcceptedBeginReceive
    <2>1. PICK r \in {"posted", "closed"} :
            /\ accepter = "receive"
            /\ receiver' = [receiver EXCEPT ![accepted] = r]
            /\ accepter' = "pending" /\ accepted' = NoClient
            /\ UNCHANGED <<field, content, link, queued, array, taken, size,
                           packet>>
        BY <1>4 DEF AcceptedBeginReceive
    <2>2. accepted \in Clients /\ Seen' = Seen /\ array[accepted] = 0
        BY <2>1 DEF Seen
    <2>3. FreshInv'
        BY <2>1, <2>2
    <2>4. \A c \in Seen : RightInv(c) => RightInv(c)'
        BY <2>1, <2>2 DEF RightInv, Seen
    <2>. QED
        BY <2>2, <2>3, <2>4 DEF Alone
<1>. QED
    BY <1>1, <1>2, <1>3, <1>4 DEF AcceptStep

(* What the clients do changes neither arrays nor receives.                   *)
LEMMA ClientAlone ==
    ASSUME AloneInv, NEW c \in Clients, ClientStep(c)
    PROVE  FreshInv' /\ (Alone' => \A d \in Seen' : RightInv(d)')
<1> USE Server2Assumption DEF AloneInv, TypeOK
<1>1. /\ UNCHANGED <<field, content, accepter, accepted, receiver, array,
                     taken, size, packet>>
      /\ \A d \in Clients : link'[d] = "none" => link[d] = "none"
                                                 /\ (d \in queued' => d \in queued)
      /\ queued' \subseteq queued \cup {d \in Clients : link[d] = "none"}
    BY DEF ClientStep, Connect, SendByte, Close, Reset, receive
<1>2. FreshInv'
    BY <1>1 DEF FreshInv
<1>3. Seen' = Seen
    BY <1>1 DEF Seen
<1>4. \A d \in Seen : RightInv(d) => RightInv(d)'
    BY <1>1 DEF RightInv
<1>. QED
    BY <1>2, <1>3, <1>4 DEF Alone

(* The receive chain of a connection that has one.                            *)
LEMMA ReceiveAlone ==
    ASSUME AloneInv, NEW c \in Clients, ReceiveStep(c)
    PROVE  FreshInv' /\ (Alone' => \A d \in Seen' : RightInv(d)')
<1> USE Server2Assumption DEF AloneInv
<1>1. /\ receiver[c] # "none" /\ receiver'[c] # "none"
      /\ \A d \in Clients : d # c => /\ receiver'[d] = receiver[d]
                                     /\ array'[d] = array[d]
      /\ UNCHANGED <<accepter, accepted, link, queued>>
    BY DEF TypeOK, ReceiveStep, ReceiveCompletes, ReceiveFails, ReceivedCopy,
           ReceivedNewBuffer, ReceivedBeginReceive, network
<1>2. FreshInv'
    BY <1>1 DEF FreshInv, TypeOK
<1>3. Seen' = Seen /\ c \in Seen
    BY <1>1 DEF Seen
<1>4. ASSUME Alone PROVE RightInv(c)'
    <2>1. RightInv(c)
        BY <1>3, <1>4
    <2> USE DEF TypeOK
    <2>2. CASE ReceiveCompletes(c)
        <3>1. PICK n \in 0..BufLen :
                /\ IF array[c] = 0 THEN n = 0
                   ELSE IF n = 0 THEN link[c] = "closed" /\ taken[c] = sent[c]
                   ELSE taken[c] + n <= sent[c]
                /\ content' = IF n = 0 THEN content ELSE Fill(array[c], c, n)
                /\ taken' = [taken EXCEPT ![c] = taken[c] + n]
                /\ size' = [size EXCEPT ![c] = n]
            BY <2>2 DEF ReceiveCompletes
        <3>2. /\ receiver[c] = "posted" /\ field' = field
              /\ receiver'[c] = "callback"
            BY <2>2 DEF ReceiveCompletes
        <3>3. size'[c] = n /\ taken'[c] = taken[c] + n /\ taken[c] \in Nat
            BY <3>1
        <3>4. CASE n = 0
            BY <3>2, <3>3, <3>4 DEF RightInv
        <3>5. CASE n # 0
            <4>1. array[c] = field /\ field \in Arrays
                BY <2>1, <3>1, <3>2, <3>5 DEF RightInv
            <4>2. content'[field] = [i \in 1..BufLen |->
                     IF i <= n THEN <<c, taken[c] + i>> ELSE content[field][i]]
                BY <3>1, <3>5, <4>1 DEF Fill
            <4>3. \A i \in 1..n : content'[field][i] = <<c, taken[c] + i>>
                BY <4>2
            <4>4. \A i \in 1..n : taken'[c] - n + i = taken[c] + i
                BY <3>3
            <4>. QED
                BY <3>2, <3>3, <4>3, <4>4 DEF RightInv
        <3>. QED
            BY <3>4, <3>5
    <2>3. CASE ReceiveFails(c)
        <3>1. receiver'[c] = "closed"
            BY <2>3 DEF ReceiveFails
        <3>. QED
            BY <3>1 DEF RightInv
    <2>4. CASE ReceivedCopy(c)
        <3>1. /\ receiver[c] = "callback" /\ receiver'[c] = "new"
              /\ packet'[c] = SubSeq(content[field], 1, size[c])
              /\ UNCHANGED <<taken, size>>
            BY <2>4 DEF ReceivedCopy
        <3>2. packet'[c] = [i \in 1..size[c] |-> content[field][i]]
            BY <3>1, PacketIsPrefix
        <3>3. \A i \in 1..size[c] :
                  content[field][i] = <<c, taken[c] - size[c] + i>>
            BY <2>1, <3>1 DEF RightInv
        <3>4. packet'[c] = [i \in 1..size[c] |-> <<c, taken[c] - size[c] + i>>]
            BY <3>2, <3>3
        <3>. QED
            BY <3>1, <3>4 DEF RightInv
    <2>5. CASE ReceivedNewBuffer(c)
        <3>1. receiver'[c] = "receive"
            BY <2>5 DEF ReceivedNewBuffer
        <3>. QED
            BY <3>1 DEF RightInv
    <2>6. CASE ReceivedBeginReceive(c)
        <3>1. receiver'[c] = "posted" /\ array'[c] = field /\ field' = field
            BY <2>6 DEF ReceivedBeginReceive
        <3>. QED
            BY <3>1 DEF RightInv
    <2>. QED
        BY <2>2, <2>3, <2>4, <2>5, <2>6 DEF ReceiveStep
<1>. QED
    BY <1>2, <1>3, <1>4 DEF Alone

(* Every step keeps the invariant of a lone connection.                       *)
LEMMA NextAlone == AloneInv /\ [Next]_vars => AloneInv'
<1> SUFFICES ASSUME AloneInv, [Next]_vars PROVE AloneInv'
    OBVIOUS
<1>1. TypeOK'
    BY NextTyped DEF AloneInv
<1>2. CASE UNCHANGED vars
    <2>1. FreshInv' /\ Seen' = Seen
        BY <1>2 DEF AloneInv, FreshInv, Seen, vars
    <2>2. \A c \in Seen : RightInv(c) => RightInv(c)'
        BY <1>2 DEF RightInv, vars
    <2>. QED
        BY <1>1, <2>1, <2>2 DEF AloneInv, Alone
<1>3. CASE Next
    BY <1>1, <1>3, AcceptAlone, ClientAlone, ReceiveAlone DEF AloneInv, Next
<1>. QED
    BY <1>2, <1>3

(* As long as only one connection was ever accepted, its packets are the      *)
(* bytes it sent, in their order (Test2.cs:34-80).                            *)
THEOREM Server2AloneIsRight == Spec => []AloneIsRight
<1>1. AloneInv => AloneIsRight
    <2> SUFFICES ASSUME AloneInv, Cardinality(Seen) <= 1, NEW c \in Clients,
                        receiver[c] = "new"
                 PROVE  packet[c] =
                          [i \in 1..size[c] |-> <<c, taken[c] - size[c] + i>>]
        BY DEF AloneIsRight, PacketsAreTheClients, Seen
    <2>1. c \in Seen
        BY DEF Seen
    <2>2. Alone
        <3> SUFFICES ASSUME NEW d \in Seen, NEW e \in Seen, d # e PROVE FALSE
            BY DEF Alone
        <3>1. IsFiniteSet(Seen)
            <4>1. Seen \in SUBSET Clients
                BY DEF Seen
            <4>. QED
                BY <4>1, Server2Assumption, FS_Subset
        <3>2. IsFiniteSet({d} \cup {e}) /\ Cardinality({d} \cup {e}) = 2
            <4>1. IsFiniteSet({d}) /\ Cardinality({d}) = 1
                BY FS_Singleton
            <4>2. /\ IsFiniteSet({d} \cup {e})
                  /\ Cardinality({d} \cup {e}) =
                       IF e \in {d} THEN Cardinality({d})
                                    ELSE Cardinality({d}) + 1
                BY <4>1, FS_AddElement
            <4>. QED
                BY <4>1, <4>2
        <3>3. Cardinality({d} \cup {e}) <= Cardinality(Seen)
            BY <3>1, FS_Subset
        <3>4. Cardinality(Seen) \in Nat
            BY <3>1, FS_CardinalityType
        <3>. QED
            BY <3>2, <3>3, <3>4
    <2>. QED
        BY <2>1, <2>2 DEF AloneInv, RightInv
<1>. QED
    BY <1>1, InitAlone, NextAlone, PTL DEF Spec
=============================================================================
