-------------------------- MODULE MsgProtocolProofs --------------------------
(* TypeOK, BlocksHoldTheirMessages and BodiesAreRestored hold for any number  *)
(* of messages, any bodies, any capacity of the stream and any size of a read.*)
EXTENDS MsgProtocol, SequenceTheorems, TLAPS

(* The body of a message; before the first one the array holds zeros.         *)
Body(k) == IF k = 0 THEN [width |-> 0, height |-> 0] ELSE msgs[k]

(* What the array holds depends on how far Pack is: the body of the message   *)
(* before until the id is written, then zeros, then its own.                  *)
BufferInv ==
    /\ \A i \in Positions \ {0, 2, 3} : buffer[i] = 0
    /\ buffer[0] \in {0, 12}
    /\ pc \in {"idle", "send"} /\ packed > 0 => buffer[0] = 12
    /\ pc = "id" =>
         buffer[2] = Body(packed - 1).width /\ buffer[3] = Body(packed - 1).height
    /\ pc = "width" => buffer[2] = 0 /\ buffer[3] = 0
    /\ pc = "height" => buffer[2] = Body(packed).width /\ buffer[3] = 0
    /\ pc \in {"length", "send", "idle"} =>
         buffer[2] = Body(packed).width /\ buffer[3] = Body(packed).height

(* Pack is run for a message; what was sent before is older than that one.    *)
PackInv ==
    pc # "idle" => packed > 0 /\ \A w \in DOMAIN order : order[w] < packed

(* A write that is pending and was not there when Pack was called the last    *)
(* time is of the message packed last, and Pack is not running.               *)
PendingInv ==
    \A w \in DOMAIN order : Len(arrived) < w * Words /\ w \notin disturbed
        => pc = "idle" /\ order[w] = packed

(* BodiesAreRestored, and the block of the portion is one that was sent.      *)
LastInv ==
    last.place = 1 /\ last.size >= 3 =>
        /\ last.block \in DOMAIN order
        /\ last.msg # Throws
        /\ MayHold(last.block, 2, last.msg.width)
        /\ MayHold(last.block, 3, last.msg.height)

(* The inductive invariant.                                                   *)
MsgInv == /\ TypeOK /\ BufferInv /\ PackInv /\ PendingInv
          /\ BlocksHoldTheirMessages /\ LastInv

-----------------------------------------------------------------------------
(* Arithmetic: places of the array in the sequence of what was written.       *)
LEMMA ProductGrows ==
    ASSUME NEW a \in Int, NEW b \in Int, NEW c \in Nat, a <= b
    PROVE  a * c <= b * c /\ a * c \in Int /\ b * c \in Int
  <1>1. (b - a) * c >= 0
    OBVIOUS
  <1>2. (b - a) * c = b * c - a * c /\ a * c \in Int /\ b * c \in Int
    OBVIOUS
  <1> QED BY <1>1, <1>2

(* Every word that was written has a block and a place in it.                 *)
LEMMA PlaceOfWord ==
    ASSUME NEW n \in Nat, NEW blocks \in Nat, n < blocks * Words
    PROVE  /\ n % Words \in Positions
           /\ \E w \in 1..blocks : n = (w - 1) * Words + (n % Words)
  <1> DEFINE q == n \div Words
             r == n % Words
  <1>1. Words \in Nat /\ Words >= 4
    BY MsgAssumption
  <1>2. q \in Nat /\ r \in 0..(Words - 1) /\ n = Words * q + r
    BY <1>1
  <1> HIDE DEF q, r
  <1>3. q * Words = Words * q /\ q * Words \in Int
    BY <1>1, <1>2
  <1>4. q < blocks
    <2>1. SUFFICES ASSUME blocks <= q PROVE FALSE
      BY <1>2
    <2>2. blocks * Words <= q * Words /\ blocks * Words \in Int
      BY <1>1, <1>2, <2>1, ProductGrows
    <2> QED BY <1>2, <1>3, <2>2
  <1>5. q + 1 \in 1..blocks /\ n = ((q + 1) - 1) * Words + r
    BY <1>2, <1>3, <1>4
  <1>6. \E w \in 1..blocks : n = (w - 1) * Words + r
    BY <1>5
  <1>7. r = n % Words /\ r \in Positions
    BY <1>2 DEF r, Positions
  <1> QED BY <1>6, <1>7

(* A word has only one block and one place.                                   *)
LEMMA PlaceIsUnique ==
    ASSUME NEW v \in Nat, NEW w \in Nat, NEW i \in Positions, NEW j \in Positions,
           (v - 1) * Words + i = (w - 1) * Words + j
    PROVE  v = w /\ i = j
  <1>1. Words \in Nat /\ i \in 0..(Words - 1) /\ j \in 0..(Words - 1)
    BY MsgAssumption DEF Positions
  <1>2. ASSUME NEW x \in Nat, NEW y \in Nat, x < y
        PROVE  (x - 1) * Words + Words <= (y - 1) * Words
               /\ (x - 1) * Words \in Int
    <2>1. x * Words <= (y - 1) * Words
      BY <1>1, <1>2, ProductGrows
    <2>2. (x - 1) * Words + Words = x * Words /\ (x - 1) * Words \in Int
      BY <1>1
    <2> QED BY <2>1, <2>2
  <1>3. ~(v < w) /\ ~(w < v)
    <2>1. (v - 1) * Words \in Int /\ (w - 1) * Words \in Int
      BY <1>1
    <2> QED BY <1>1, <1>2, <2>1
  <1>4. v = w
    BY <1>3
  <1>5. (w - 1) * Words \in Int
    BY <1>1
  <1> QED BY <1>1, <1>4, <1>5

(* The place is what the number of the word leaves.                           *)
LEMMA PlaceIsRemainder ==
    ASSUME NEW n \in Nat, NEW w \in Nat, w > 0, NEW i \in Positions,
           n = (w - 1) * Words + i
    PROVE  n % Words = i
  <1>1. Words \in Nat /\ Words >= 4 /\ i \in 0..(Words - 1)
    BY MsgAssumption DEF Positions
  <1>2. n < w * Words
    <2>1. (w - 1) * Words = w * Words - Words /\ w * Words \in Int
      BY <1>1
    <2> QED BY <1>1, <2>1
  <1> DEFINE j == n % Words
  <1>3. j \in Positions /\ \E v \in 1..w : n = (v - 1) * Words + j
    BY <1>2, PlaceOfWord
  <1> HIDE DEF j
  <1>4. PICK v \in 1..w : n = (v - 1) * Words + j
    BY <1>3
  <1>5. v \in Nat /\ (v - 1) * Words + j = (w - 1) * Words + i
    BY <1>4
  <1>6. j = i
    BY <1>3, <1>5, PlaceIsUnique
  <1> QED BY <1>6 DEF j

-----------------------------------------------------------------------------
(* Types.                                                                     *)
LEMMA InitMsg == Init => MsgInv
  <1> SUFFICES ASSUME Init PROVE MsgInv
    OBVIOUS
  <1> USE MsgAssumption
  <1>1. order = <<>> /\ arrived = <<>> /\ Len(order) = 0 /\ Len(arrived) = 0
        /\ DOMAIN order = {}
    BY DEF Init
  <1>2. order \in Seq(1..packed) /\ arrived \in Seq(Int)
    BY <1>1
  <1>3. 0 * Words = 0
    OBVIOUS
  <1>4. TypeOK
    <2>1. buffer \in [Positions -> Int] /\ last.place \in Positions
      BY DEF Init, Positions
    <2>2. last \in [block : Nat, place : Positions, size : Nat,
                    msg : {Throws} \cup MsgTest(Int)]
      BY <2>1 DEF Init
    <2>3. msgs \in [1..Messages -> MsgTest(Int)]
      BY DEF Init, MsgTest
    <2> QED BY <1>1, <1>2, <1>3, <2>1, <2>2, <2>3 DEF Init, TypeOK
  <1>5. BufferInv
    BY DEF Init, BufferInv, Body, Positions
  <1>6. PackInv /\ PendingInv /\ BlocksHoldTheirMessages
    BY <1>1 DEF Init, PackInv, PendingInv, BlocksHoldTheirMessages
  <1>7. LastInv
    BY DEF Init, LastInv
  <1> QED BY <1>4, <1>5, <1>6, <1>7 DEF MsgInv

(* Pack's writes stay inside the array.                                       *)
LEMMA PackTyped ==
    ASSUME TypeOK, PackInv,
           \/ PackBegin \/ PackId \/ PackLength
           \/ PackBody("width", "height") \/ PackBody("height", "length")
    PROVE  TypeOK'
  <1> USE MsgAssumption
  <1>1. /\ 0 \in Positions /\ 1 \in Positions /\ 2 \in Positions /\ 3 \in Positions
        /\ TestID = 0
    BY DEF Positions, TestID
  <1>2. packed \in 0..Messages
    BY DEF TypeOK
  <1>3. CASE PackBegin
    <2>1. packed' \in 0..Messages /\ packed' = packed + 1
      BY <1>2, <1>3 DEF PackBegin
    <2>2. order' \in Seq(1..packed')
      <3>1. 1..packed \subseteq 1..packed'
        BY <1>2, <2>1
      <3>2. order \in Seq(1..packed) /\ order' = order
        BY <1>3 DEF TypeOK, PackBegin, other
      <3> QED BY <3>1, <3>2, SeqMonotonic
    <2>3. disturbed' \subseteq DOMAIN order'
      BY <1>3 DEF TypeOK, PackBegin, Pending, other
    <2>4. /\ pc' = "id" /\ length' = 0
          /\ UNCHANGED <<msgs, buffer, arrived, taken, last, order>>
      BY <1>3 DEF PackBegin, other
    <2> QED BY <2>1, <2>2, <2>3, <2>4 DEF TypeOK
  <1>4. CASE PackId \/ PackLength \/ PackBody("width", "height")
            \/ PackBody("height", "length")
    <2>1. UNCHANGED <<msgs, packed, disturbed, order, arrived, taken, last>>
      BY <1>4 DEF PackId, PackLength, PackBody, other
    <2>2. buffer' \in [Positions -> Int]
      <3>1. /\ buffer \in [Positions -> Int]
            /\ pc = "width" => length = 2
            /\ pc = "height" => length = 3
            /\ pc = "length" => 4 * length - 4 = 12
        BY <1>2 DEF TypeOK, PackInv
      <3>2. CASE PackId
        BY <1>1, <3>1, <3>2 DEF PackId
      <3>3. CASE PackLength
        BY <1>1, <3>1, <3>3 DEF PackLength
      <3>4. CASE PackBody("width", "height") \/ PackBody("height", "length")
        <4>1. packed > 0
          BY <3>4 DEF PackBody, PackInv
        <4>2. msgs[packed] \in MsgTest(Int)
          BY <1>2, <4>1 DEF TypeOK
        <4>3. msgs[packed].width \in Int /\ msgs[packed].height \in Int
          BY <4>2 DEF MsgTest
        <4>4. length \in Positions
          BY <1>1, <3>1, <3>4 DEF PackBody
        <4> QED BY <3>1, <3>4, <4>3, <4>4 DEF PackBody
      <3> QED BY <1>4, <3>2, <3>3, <3>4
    <2>3. /\ pc' \in {"idle", "id", "width", "height", "length", "send"}
          /\ length' = CASE pc' = "id" -> 0
                        [] pc' = "width" -> 2
                        [] pc' = "height" -> 3
                        [] OTHER -> IF packed' = 0 THEN 0 ELSE 4
      BY <1>2, <1>4, <2>1 DEF TypeOK, PackId, PackLength, PackBody, PackInv
    <2> QED BY <2>1, <2>2, <2>3 DEF TypeOK
  <1> QED BY <1>3, <1>4

(* The sequences of writes and words.                                         *)
LEMMA Lengths ==
    ASSUME TypeOK
    PROVE  /\ Len(order) \in Nat /\ DOMAIN order = 1..Len(order)
           /\ Len(arrived) \in Nat /\ DOMAIN arrived = 1..Len(arrived)
           /\ Len(arrived) <= Len(order) * Words
           /\ packed \in Nat /\ packed <= Messages /\ Messages \in Nat
           /\ Words \in Nat /\ Words >= 4
  <1>1. order \in Seq(1..packed) /\ arrived \in Seq(Int)
    BY DEF TypeOK
  <1>2. packed \in 0..Messages /\ Len(arrived) <= Len(order) * Words
    BY DEF TypeOK
  <1> QED BY <1>1, <1>2, LenProperties, MsgAssumption

(* Only a word of a pending write is taken from the array.                    *)
LEMMA RoomForAWord ==
    ASSUME TypeOK, Pending # {}
    PROVE  Len(arrived) + 1 <= Len(order) * Words
  <1>1. PICK w \in DOMAIN order : Len(arrived) < w * Words
    BY DEF Pending
  <1>2. w \in Int /\ w <= Len(order)
    BY Lengths
  <1>3. w * Words <= Len(order) * Words /\ w * Words \in Int
        /\ Len(order) * Words \in Int
    BY <1>2, Lengths, ProductGrows
  <1> QED BY <1>1, <1>3, Lengths

(* Sending, writing and reading keep the types.                               *)
LEMMA TransferTyped ==
    ASSUME TypeOK, PackInv,
           \/ Send \/ SendNothing \/ Write \/ \E n \in 1..BufLen : Receive(n)
    PROVE  TypeOK'
  <1>1. CASE Send
    <2>1. order' = Append(order, packed) /\ packed \in 1..packed
          /\ UNCHANGED <<msgs, buffer, length, packed, arrived, disturbed>>
          /\ UNCHANGED <<taken, last>>
      BY <1>1, Lengths DEF Send, PackInv
    <2>2. order \in Seq(1..packed)
      BY DEF TypeOK
    <2>3. order' \in Seq(1..packed) /\ Len(order') = Len(order) + 1
      BY <2>1, <2>2, AppendProperties
    <2>4. DOMAIN order' = 1..(Len(order) + 1)
      BY <2>3, LenProperties
    <2>5. Len(arrived) <= Len(order') * Words
      <3>1. /\ Len(order) * Words <= (Len(order) + 1) * Words
            /\ Len(order) * Words \in Int /\ (Len(order) + 1) * Words \in Int
        BY Lengths, ProductGrows
      <3> QED BY <2>3, <3>1, Lengths
    <2>6. disturbed \subseteq DOMAIN order'
      <3>1. DOMAIN order \subseteq DOMAIN order'
        BY <2>4, Lengths
      <3> QED BY <3>1 DEF TypeOK
    <2>7. /\ pc' = "idle"
          /\ length = CASE pc' = "id" -> 0
                        [] pc' = "width" -> 2
                        [] pc' = "height" -> 3
                        [] OTHER -> IF packed = 0 THEN 0 ELSE 4
      BY <1>1, Lengths DEF Send, TypeOK, PackInv
    <2> QED BY <2>1, <2>3, <2>5, <2>6, <2>7 DEF TypeOK
  <1>2. CASE SendNothing
    <2>1. /\ UNCHANGED <<buffer, length, packed, disturbed, order, arrived>>
          /\ UNCHANGED <<msgs, taken, last>>
      BY <1>2 DEF SendNothing, other
    <2>2. /\ pc' = "idle"
          /\ length = CASE pc' = "id" -> 0
                        [] pc' = "width" -> 2
                        [] pc' = "height" -> 3
                        [] OTHER -> IF packed = 0 THEN 0 ELSE 4
      BY <1>2, Lengths DEF SendNothing, TypeOK, PackInv
    <2> QED BY <2>1, <2>2 DEF TypeOK
  <1>3. CASE Write
    <2>1. /\ UNCHANGED <<msgs, buffer, length, pc, packed, order, disturbed>>
          /\ UNCHANGED <<taken, last>>
      BY <1>3 DEF Write
    <2>2. buffer[Len(arrived) % Words] \in Int
      <3>1. Len(arrived) % Words \in Positions
        BY Lengths DEF Positions
      <3> QED BY <3>1 DEF TypeOK
    <2>3. arrived' \in Seq(Int) /\ Len(arrived') = Len(arrived) + 1
      <3>1. arrived \in Seq(Int)
        BY DEF TypeOK
      <3> QED BY <1>3, <2>2, <3>1, AppendProperties DEF Write
    <2>4. Len(arrived') <= Len(order) * Words
      BY <1>3, <2>3, RoomForAWord DEF Write
    <2>5. taken \in 0..Len(arrived')
      <3>1. taken \in 0..Len(arrived)
        BY DEF TypeOK
      <3> QED BY <2>3, <3>1, Lengths
    <2> QED BY <2>1, <2>3, <2>4, <2>5 DEF TypeOK
  <1>4. ASSUME NEW n \in 1..BufLen, Receive(n)
        PROVE  TypeOK'
    <2> DEFINE d == SubSeq(arrived, taken + 1, taken + n)
    <2>1. /\ UNCHANGED <<msgs, buffer, length, pc, packed, order, arrived>>
          /\ UNCHANGED disturbed
          /\ taken' = taken + n /\ taken + n <= Len(arrived)
          /\ last' = [block |-> (taken \div Words) + 1, place |-> taken % Words,
                      size |-> n, msg |-> Unpack(d)]
      BY <1>4 DEF Receive
    <2>2. taken \in Nat /\ n \in Nat
      <3>1. taken \in 0..Len(arrived)
        BY DEF TypeOK
      <3> QED BY <3>1, MsgAssumption
    <2>3. d \in Seq(Int)
      <3>1. \A i \in (taken + 1)..(taken + n) : arrived[i] \in Int
        <4>1. (taken + 1)..(taken + n) \subseteq 1..Len(arrived)
          BY <2>1, <2>2, Lengths
        <4>2. arrived \in Seq(Int)
          BY DEF TypeOK
        <4> QED BY <4>1, <4>2, ElementOfSeq
      <3> QED BY <2>2, <3>1, SubSeqProperties
    <2>4. Unpack(d) \in {Throws} \cup MsgTest(Int)
      <3> HIDE DEF d
      <3>1. Len(d) >= 3 => d[2] \in Int /\ d[3] \in Int
        BY <2>3, ElementOfSeq, LenProperties
      <3> QED BY <3>1 DEF Unpack, MsgTest
    <2>5. /\ taken % Words \in Positions /\ taken + n \in 0..Len(arrived)
          /\ (taken \div Words) + 1 \in Nat
      <3>1. Words \in Nat /\ Words >= 4
        BY MsgAssumption
      <3>2. taken \div Words \in Nat /\ taken % Words \in 0..(Words - 1)
        BY <2>2, <3>1
      <3>3. (taken \div Words) + 1 \in Nat /\ taken % Words \in Positions
        BY <3>2 DEF Positions
      <3>4. taken + n \in 0..Len(arrived)
        BY <2>1, <2>2, Lengths
      <3> QED BY <3>3, <3>4
    <2> HIDE DEF d
    <2>6. last' \in [block : Nat, place : Positions, size : Nat,
                     msg : {Throws} \cup MsgTest(Int)]
      BY <2>1, <2>2, <2>4, <2>5
    <2> QED BY <2>1, <2>5, <2>6 DEF TypeOK
  <1> QED BY <1>1, <1>2, <1>3, <1>4

-----------------------------------------------------------------------------
(* The array while Pack writes it.                                            *)
LEMMA NextBuffer ==
    ASSUME TypeOK, BufferInv, PackInv, [Next]_vars
    PROVE  BufferInv'
  <1>1. /\ 0 \in Positions /\ 1 \in Positions /\ 2 \in Positions /\ 3 \in Positions
        /\ packed \in Nat /\ buffer \in [Positions -> Int]
        /\ pc = "width" => length = 2
        /\ pc = "height" => length = 3
        /\ pc = "length" => 4 * length - 4 = 12
    <2>1. packed \in Nat /\ (pc # "idle" => packed > 0)
      BY Lengths DEF PackInv
    <2> QED BY <2>1, MsgAssumption DEF Positions, TypeOK
  <1>2. msgs' = msgs
    BY DEF Next, PackBegin, PackId, PackLength, PackBody, Send, SendNothing,
           Write, Receive, other, vars
  <1>3. CASE PackBegin
    <2>1. /\ pc = "idle" /\ pc' = "id" /\ buffer' = buffer /\ packed' - 1 = packed
      BY <1>1, <1>3 DEF PackBegin
    <2> QED BY <1>2, <2>1 DEF BufferInv, Body
  <1>4. CASE PackId
    <2>1. /\ pc' = "width" /\ buffer'[0] = 0 /\ buffer'[1] = 0
          /\ buffer'[2] = 0 /\ buffer'[3] = 0
          /\ \A i \in Positions \ {0, 1, 2, 3} : buffer'[i] = buffer[i]
      BY <1>1, <1>4 DEF PackId, TestID
    <2> QED BY <2>1 DEF BufferInv
  <1>5. CASE PackLength
    <2>1. /\ pc = "length" /\ pc' = "send" /\ packed' = packed /\ buffer'[0] = 12
          /\ \A i \in Positions \ {0} : buffer'[i] = buffer[i]
      BY <1>1, <1>5 DEF PackLength
    <2> QED BY <1>1, <1>2, <2>1 DEF BufferInv, Body
  <1>6. CASE PackBody("width", "height")
    <2>1. /\ pc = "width" /\ pc' = "height" /\ packed' = packed /\ packed # 0
          /\ buffer'[2] = msgs[packed].width
          /\ \A i \in Positions \ {2} : buffer'[i] = buffer[i]
      BY <1>1, <1>6 DEF PackBody, PackInv
    <2> QED BY <1>1, <1>2, <2>1 DEF BufferInv, Body
  <1>7. CASE PackBody("height", "length")
    <2>1. /\ pc = "height" /\ pc' = "length" /\ packed' = packed /\ packed # 0
          /\ buffer'[3] = msgs[packed].height
          /\ \A i \in Positions \ {3} : buffer'[i] = buffer[i]
      BY <1>1, <1>7 DEF PackBody, PackInv
    <2> QED BY <1>1, <1>2, <2>1 DEF BufferInv, Body
  <1>8. CASE Send \/ SendNothing
    <2>1. /\ pc = "send" /\ pc' = "idle" /\ packed' = packed /\ buffer' = buffer
      BY <1>8 DEF Send, SendNothing
    <2> QED BY <1>2, <2>1 DEF BufferInv, Body
  <1>9. CASE Write \/ (\E n \in 1..BufLen : Receive(n)) \/ UNCHANGED vars
    <2>1. UNCHANGED <<msgs, buffer, pc, packed>>
      BY <1>9 DEF Write, Receive, vars
    <2> QED BY <2>1 DEF BufferInv, Body
  <1> QED BY <1>3, <1>4, <1>5, <1>6, <1>7, <1>8, <1>9 DEF Next

(* What was sent is older than the message Pack is run for.                   *)
LEMMA NextPack ==
    ASSUME TypeOK, PackInv, [Next]_vars
    PROVE  PackInv'
  <1>1. packed \in Nat /\ \A w \in DOMAIN order : order[w] \in 1..packed
    <2>1. order \in Seq(1..packed)
      BY DEF TypeOK
    <2> QED BY <2>1, Lengths, ElementOfSeq
  <1>2. CASE PackBegin
    BY <1>1, <1>2 DEF PackBegin, PackInv, other
  <1>3. CASE PackId \/ PackLength \/ PackBody("width", "height")
            \/ PackBody("height", "length")
    BY <1>3 DEF PackId, PackLength, PackBody, PackInv, other
  <1>4. CASE Send \/ SendNothing
    BY <1>4 DEF Send, SendNothing, PackInv
  <1>5. CASE Write \/ (\E n \in 1..BufLen : Receive(n)) \/ UNCHANGED vars
    <2>1. UNCHANGED <<pc, packed, order>>
      BY <1>5 DEF Write, Receive, vars
    <2> QED BY <2>1 DEF PackInv
  <1> QED BY <1>2, <1>3, <1>4, <1>5 DEF Next

(* Sending a message appends it to the writes.                                *)
LEMMA SendAppends ==
    ASSUME TypeOK, PackInv, Send
    PROVE  /\ DOMAIN order' = 1..(Len(order) + 1)
           /\ order'[Len(order) + 1] = packed
           /\ \A w \in DOMAIN order : w \in DOMAIN order' /\ order'[w] = order[w]
  <1>1. order' = Append(order, packed) /\ packed \in 1..packed
    BY Lengths DEF Send, PackInv
  <1>2. order \in Seq(1..packed)
    BY DEF TypeOK
  <1>3. /\ order' \in Seq(1..packed) /\ Len(order') = Len(order) + 1
        /\ \A w \in 1..Len(order) : order'[w] = order[w]
        /\ order'[Len(order) + 1] = packed
    BY <1>1, <1>2, AppendProperties
  <1>4. DOMAIN order' = 1..(Len(order) + 1)
    BY <1>3, LenProperties
  <1> QED BY <1>3, <1>4, Lengths

(* Writing takes one more word from the array.                                *)
LEMMA WriteAppends ==
    ASSUME TypeOK, Write
    PROVE  /\ Len(arrived') = Len(arrived) + 1
           /\ arrived'[Len(arrived) + 1] = buffer[Len(arrived) % Words]
           /\ \A n \in 1..Len(arrived) : arrived'[n] = arrived[n]
  <1>1. arrived \in Seq(Int)
    BY DEF TypeOK
  <1>2. buffer[Len(arrived) % Words] \in Int
    <2>1. Len(arrived) % Words \in Positions
      BY Lengths DEF Positions
    <2> QED BY <2>1 DEF TypeOK
  <1> QED BY <1>1, <1>2, AppendProperties DEF Write

(* A pending write that no Pack disturbed is of the message packed last.      *)
LEMMA NextPending ==
    ASSUME TypeOK, PackInv, PendingInv, [Next]_vars
    PROVE  PendingInv'
  <1>1. CASE PackBegin
    <2>1. disturbed' = disturbed \cup Pending /\ UNCHANGED <<arrived, order>>
      BY <1>1 DEF PackBegin, other
    <2> QED BY <2>1 DEF PendingInv, Pending
  <1>2. CASE PackId \/ PackLength \/ PackBody("width", "height")
            \/ PackBody("height", "length") \/ SendNothing
    <2>1. pc # "idle" /\ UNCHANGED <<arrived, order, disturbed>>
      BY <1>2 DEF PackId, PackLength, PackBody, SendNothing, other
    <2> QED BY <2>1 DEF PendingInv
  <1>3. CASE Send
    <2>1. /\ pc = "send" /\ pc' = "idle"
          /\ UNCHANGED <<arrived, disturbed, packed>>
      BY <1>3 DEF Send
    <2>2. ASSUME NEW w \in DOMAIN order', w # Len(order) + 1
          PROVE  w \in DOMAIN order
      BY <1>3, <2>2, SendAppends, Lengths
    <2>3. \A w \in DOMAIN order : ~(Len(arrived) < w * Words /\ w \notin disturbed)
      BY <2>1 DEF PendingInv
    <2>4. order'[Len(order) + 1] = packed
      BY <1>3, SendAppends
    <2> QED BY <2>1, <2>2, <2>3, <2>4 DEF PendingInv
  <1>4. CASE Write
    <2>1. Len(arrived') = Len(arrived) + 1 /\ UNCHANGED <<pc, packed, order, disturbed>>
      BY <1>4, WriteAppends DEF Write
    <2>2. ASSUME NEW w \in DOMAIN order, Len(arrived') < w * Words
          PROVE  Len(arrived) < w * Words
      <3>1. w \in Int /\ w * Words \in Int
        BY Lengths
      <3> QED BY <2>1, <2>2, <3>1, Lengths
    <2> QED BY <2>1, <2>2 DEF PendingInv
  <1>5. CASE (\E n \in 1..BufLen : Receive(n)) \/ UNCHANGED vars
    <2>1. UNCHANGED <<arrived, pc, packed, order, disturbed>>
      BY <1>5 DEF Receive, vars
    <2> QED BY <2>1 DEF PendingInv
  <1> QED BY <1>1, <1>2, <1>3, <1>4, <1>5 DEF Next

-----------------------------------------------------------------------------
(* What the blocks hold.                                                      *)

(* The word a pending write takes next from the array.                        *)
LEMMA WordTaken ==
    ASSUME TypeOK, BufferInv, PackInv, PendingInv,
           NEW w \in DOMAIN order, NEW i \in Positions,
           Len(arrived) < w * Words
    PROVE  MayHold(w, i, buffer[i])
  <1>1. order[w] \in Nat /\ order[w] > 0 /\ order[w] <= packed /\ packed \in Nat
    <2>1. order \in Seq(1..packed)
      BY DEF TypeOK
    <2>2. order[w] \in 1..packed
      BY <2>1, Lengths, ElementOfSeq
    <2> QED BY <2>2, Lengths
  <1>2. pc # "idle" => order[w] < packed /\ w \in disturbed
    BY DEF PackInv, PendingInv
  <1>3. w \notin disturbed => order[w] = packed
    BY DEF PendingInv
  <1>4. ASSUME NEW k \in order[w]..packed, buffer[i] = Block(k)[i],
               k = packed \/ w \in disturbed
        PROVE  MayHold(w, i, buffer[i])
    BY <1>3, <1>4 DEF MayHold
  <1>5. packed \in order[w]..packed
    BY <1>1
  <1>6. pc = "id" => packed - 1 \in order[w]..packed
    BY <1>1, <1>2
  <1>7. pc \in {"idle", "id", "width", "height", "length", "send"}
    BY DEF TypeOK
  <1>8. CASE i \in {2, 3}
    <2>1. ASSUME NEW k \in Nat \ {0}
          PROVE  i = 2 => Block(k)[i] = Body(k).width
      BY DEF Block, Body
    <2>2. ASSUME NEW k \in Nat \ {0}
          PROVE  i = 3 => Block(k)[i] = Body(k).height
      BY DEF Block, Body
    <2>3. CASE pc = "id"
      <3>1. buffer[i] = Block(packed - 1)[i]
        BY <1>1, <1>2, <1>8, <2>1, <2>2, <2>3 DEF BufferInv
      <3> QED BY <1>2, <1>4, <1>6, <2>3, <3>1
    <2>4. CASE pc = "width" \/ (pc = "height" /\ i = 3)
      <3>1. buffer[i] = 0 /\ w \in disturbed
        BY <1>2, <1>8, <2>4 DEF BufferInv
      <3> QED BY <3>1 DEF MayHold
    <2>5. CASE pc \in {"idle", "length", "send"} \/ (pc = "height" /\ i = 2)
      <3>1. buffer[i] = Block(packed)[i]
        BY <1>1, <1>8, <2>1, <2>2, <2>5 DEF BufferInv
      <3> QED BY <1>4, <1>5, <3>1
    <2> QED BY <1>7, <1>8, <2>3, <2>4, <2>5
  <1>9. CASE i = 0
    <2>1. buffer[0] \in {0, 12} /\ (pc = "idle" => buffer[0] = 12)
      BY <1>1 DEF BufferInv
    <2>2. Block(order[w])[i] = 12
      BY <1>9 DEF Block
    <2> QED BY <1>2, <1>9, <2>1, <2>2 DEF MayHold
  <1>10. CASE i \notin {0, 2, 3}
    BY <1>10 DEF BufferInv, Block, MayHold
  <1> QED BY <1>8, <1>9, <1>10

(* What a block may hold it may hold later, too.                              *)
LEMMA MayStillHold ==
    ASSUME TypeOK, PackInv, [Next]_vars,
           NEW w \in DOMAIN order, NEW i \in Positions, NEW v, MayHold(w, i, v)
    PROVE  w \in DOMAIN order' /\ MayHold(w, i, v)'
  <1>1. /\ w \in DOMAIN order' /\ order'[w] = order[w]
        /\ disturbed \subseteq disturbed' /\ packed' \in {packed, packed + 1}
        /\ msgs' = msgs
    <2>1. CASE Send
      BY <2>1, SendAppends DEF Send
    <2>2. CASE PackBegin
      BY <2>2 DEF PackBegin, other
    <2>3. CASE Write \/ (\E n \in 1..BufLen : Receive(n)) \/ UNCHANGED vars
      BY <2>3 DEF Write, Receive, vars
    <2>4. CASE PackId \/ PackLength \/ SendNothing
                \/ PackBody("width", "height") \/ PackBody("height", "length")
      BY <2>4 DEF PackId, PackLength, SendNothing, PackBody, other
    <2> QED BY <2>1, <2>2, <2>3, <2>4 DEF Next
  <1>2. \A k : Block(k)' = Block(k)
    BY <1>1 DEF Block
  <1>3. order[w] \in Nat /\ packed \in Nat
    <2>1. order \in Seq(1..packed)
      BY DEF TypeOK
    <2> QED BY <2>1, Lengths, ElementOfSeq
  <1>4. order[w]..packed \subseteq order[w]..packed'
    BY <1>1, <1>3
  <1> QED BY <1>1, <1>2, <1>4 DEF MayHold

(* No step makes a block hold anything else.                                  *)
LEMMA NextBlocks ==
    ASSUME TypeOK, BufferInv, PackInv, PendingInv, BlocksHoldTheirMessages,
           [Next]_vars
    PROVE  BlocksHoldTheirMessages'
  <1> SUFFICES ASSUME NEW w \in DOMAIN order', NEW i \in Positions, Has(w, i)',
                      NEW v, v = Word(w, i)'
               PROVE  MayHold(w, i, v)'
    BY DEF BlocksHoldTheirMessages, MayHold
  <1>1. CASE Write
    <2>1. /\ Len(arrived') = Len(arrived) + 1
          /\ arrived'[Len(arrived) + 1] = buffer[Len(arrived) % Words]
          /\ \A n \in 1..Len(arrived) : arrived'[n] = arrived[n]
          /\ order' = order
      BY <1>1, WriteAppends DEF Write
    <2> DEFINE n == (w - 1) * Words + i
    <2>2. n \in Nat /\ w \in Nat /\ w > 0
      <3>1. w - 1 \in Nat /\ i \in Nat /\ w \in Nat /\ w > 0
        BY <2>1, Lengths DEF Positions
      <3>2. (w - 1) * Words \in Nat
        <4>1. 0 * Words <= (w - 1) * Words /\ (w - 1) * Words \in Int /\ 0 * Words = 0
          BY <3>1, Lengths, ProductGrows
        <4> QED BY <4>1
      <3> QED BY <3>1, <3>2
    <2>3. n < Len(arrived) + 1 /\ Word(w, i)' = arrived'[n + 1]
          /\ Word(w, i) = arrived[n + 1]
      BY <2>1 DEF Has, Word
    <2>4. CASE n < Len(arrived)
      <3>1. Word(w, i)' = Word(w, i)
        <4> HIDE DEF n
        <4>1. n + 1 \in 1..Len(arrived)
          BY <2>2, <2>4, Lengths
        <4> QED BY <2>1, <2>3, <4>1
      <3>2. Has(w, i)
        BY <2>4 DEF Has
      <3>3. MayHold(w, i, Word(w, i))
        BY <2>1, <3>2 DEF BlocksHoldTheirMessages
      <3> QED BY <2>1, <3>1, <3>3, MayStillHold
    <2>5. CASE n = Len(arrived)
      <3>1. Len(arrived) < w * Words
        <4>1. (w - 1) * Words = w * Words - Words /\ w * Words \in Int
          BY <2>2, Lengths
        <4> QED BY <2>5, <4>1, Lengths DEF Positions
      <3>2. Len(arrived) % Words = i
        BY <2>2, <2>5, PlaceIsRemainder
      <3>3. Word(w, i)' = buffer[i]
        BY <2>1, <2>3, <2>5, <3>2
      <3>4. MayHold(w, i, buffer[i])
        BY <2>1, <3>1, WordTaken
      <3> QED BY <2>1, <3>3, <3>4, MayStillHold
    <2> HIDE DEF n
    <2>6. n < Len(arrived) \/ n = Len(arrived)
      <3>1. n \in Nat /\ n < Len(arrived) + 1
        BY <2>2, <2>3
      <3>2. Len(arrived) \in Nat
        BY Lengths
      <3> QED BY <3>1, <3>2
    <2> QED BY <2>4, <2>5, <2>6
  <1>2. CASE UNCHANGED arrived
    <2>1. Has(w, i) /\ Word(w, i)' = Word(w, i)
      BY <1>2 DEF Has, Word
    <2>2. w \in DOMAIN order
      <3>1. CASE Send
        <4>1. SUFFICES ASSUME w = Len(order) + 1 PROVE FALSE
          BY <3>1, SendAppends, Lengths
        <4>2. i \in Nat /\ (w - 1) * Words = Len(order) * Words
              /\ Len(order) * Words \in Int
          BY <4>1, Lengths DEF Positions
        <4> QED BY <2>1, <4>2, Lengths DEF Has
      <3>2. CASE UNCHANGED order
        BY <3>2
      <3> QED BY <3>1, <3>2
        DEF Next, PackBegin, PackId, PackLength, PackBody, SendNothing, Write,
            Receive, other, vars
    <2>3. MayHold(w, i, Word(w, i))
      BY <2>1, <2>2 DEF BlocksHoldTheirMessages
    <2> QED BY <2>1, <2>2, <2>3, MayStillHold
  <1> QED BY <1>1, <1>2
    DEF Next, PackBegin, PackId, PackLength, PackBody, Send, SendNothing,
        Receive, other, vars

-----------------------------------------------------------------------------
(* What Unpack gives.                                                         *)

(* What is read of a block that was sent, from its second word on.            *)
LEMMA BlockRead ==
    ASSUME TypeOK, BlocksHoldTheirMessages, NEW t \in Nat, t % Words = 1,
           t + 3 <= Len(arrived)
    PROVE  /\ (t \div Words) + 1 \in DOMAIN order
           /\ arrived[t + 1] = 0
           /\ MayHold((t \div Words) + 1, 2, arrived[t + 2])
           /\ MayHold((t \div Words) + 1, 3, arrived[t + 3])
  <1> DEFINE q == t \div Words
             w == q + 1
  <1>1. Words \in Nat /\ Words >= 4 /\ Len(order) \in Nat /\ Len(arrived) \in Nat
    BY Lengths
  <1>2. q \in Nat /\ t = Words * q + 1
    BY <1>1
  <1> HIDE DEF q
  <1>3. q * Words = Words * q /\ q * Words \in Int /\ (w - 1) * Words = q * Words
    BY <1>1, <1>2
  <1>4. q < Len(order)
    <2>1. SUFFICES ASSUME Len(order) <= q PROVE FALSE
      BY <1>1, <1>2
    <2>2. Len(order) * Words <= q * Words /\ Len(order) * Words \in Int
      BY <1>1, <1>2, <2>1, ProductGrows
    <2> QED BY <1>1, <1>2, <1>3, <2>2, Lengths
  <1>5. w \in DOMAIN order
    BY <1>1, <1>2, <1>4, Lengths
  <1>6. 1 \in Positions /\ 2 \in Positions /\ 3 \in Positions
    BY <1>1 DEF Positions
  <1> HIDE DEF w
  <1>7. /\ Has(w, 1) /\ Word(w, 1) = arrived[t + 1]
        /\ Has(w, 2) /\ Word(w, 2) = arrived[t + 2]
        /\ Has(w, 3) /\ Word(w, 3) = arrived[t + 3]
    <2>1. /\ (w - 1) * Words + 1 = t /\ (w - 1) * Words + 2 = t + 1
          /\ (w - 1) * Words + 3 = t + 2
      BY <1>2, <1>3
    <2>2. t < Len(arrived) /\ t + 1 < Len(arrived) /\ t + 2 < Len(arrived)
          /\ (t + 1) + 1 = t + 2 /\ (t + 2) + 1 = t + 3
      BY <1>1
    <2> QED BY <2>1, <2>2 DEF Has, Word
  <1>8. /\ MayHold(w, 1, arrived[t + 1]) /\ MayHold(w, 2, arrived[t + 2])
        /\ MayHold(w, 3, arrived[t + 3])
    BY <1>5, <1>6, <1>7 DEF BlocksHoldTheirMessages
  <1>9. arrived[t + 1] = 0
    BY <1>6, <1>8 DEF MayHold, Block
  <1> QED BY <1>5, <1>8, <1>9 DEF w, q

(* Every portion that has a body gives one that its block may hold.           *)
LEMMA NextLast ==
    ASSUME TypeOK, PackInv, BlocksHoldTheirMessages, LastInv, [Next]_vars
    PROVE  LastInv'
  <1>1. 2 \in Positions /\ 3 \in Positions
    BY Lengths DEF Positions
  <1>2. CASE UNCHANGED last
    <2> SUFFICES ASSUME last.place = 1, last.size >= 3
                 PROVE  /\ last.block \in DOMAIN order'
                        /\ last.msg # Throws
                        /\ MayHold(last.block, 2, last.msg.width)'
                        /\ MayHold(last.block, 3, last.msg.height)'
      BY <1>2 DEF LastInv
    <2>1. /\ last.block \in DOMAIN order
          /\ last.msg # Throws
          /\ MayHold(last.block, 2, last.msg.width)
          /\ MayHold(last.block, 3, last.msg.height)
      BY DEF LastInv
    <2> QED BY <1>1, <1>2, <2>1, MayStillHold
  <1>3. ASSUME NEW n \in 1..BufLen, Receive(n)
        PROVE  LastInv'
    <2> DEFINE d == SubSeq(arrived, taken + 1, taken + n)
               w == (taken \div Words) + 1
    <2>1. /\ taken + n <= Len(arrived)
          /\ last' = [block |-> w, place |-> taken % Words, size |-> n,
                      msg |-> Unpack(d)]
          /\ UNCHANGED <<msgs, packed, order, disturbed>>
      BY <1>3 DEF Receive
    <2> SUFFICES ASSUME taken % Words = 1, n >= 3
                 PROVE  /\ w \in DOMAIN order
                        /\ Unpack(d) # Throws
                        /\ MayHold(w, 2, Unpack(d).width)
                        /\ MayHold(w, 3, Unpack(d).height)
      BY <2>1 DEF LastInv, MayHold, Block
    <2>2. taken \in Nat /\ n \in Nat
      <3>1. taken \in 0..Len(arrived)
        BY DEF TypeOK
      <3> QED BY <3>1, MsgAssumption
    <2>3. /\ Len(d) = n
          /\ \A i \in 1..n : d[i] = arrived[taken + i]
      <3>1. \A i \in (taken + 1)..(taken + n) : arrived[i] \in Int
        <4>1. (taken + 1)..(taken + n) \subseteq 1..Len(arrived)
          BY <2>1, <2>2, Lengths
        <4>2. arrived \in Seq(Int)
          BY DEF TypeOK
        <4> QED BY <4>1, <4>2, ElementOfSeq
      <3>2. taken + 1 \in Int /\ taken + n \in Int
        BY <2>2
      <3> HIDE DEF d
      <3>3. /\ Len(d) = IF taken + 1 <= taken + n
                        THEN (taken + n) - (taken + 1) + 1 ELSE 0
            /\ \A i \in 1..((taken + n) - (taken + 1) + 1) :
                   d[i] = arrived[(taken + 1) + i - 1]
        BY <3>1, <3>2, SubSeqProperties DEF d
      <3>4. \A i \in 1..n : (taken + 1) + i - 1 = taken + i
        BY <2>2
      <3> QED BY <2>2, <3>3, <3>4
    <2>4. /\ w \in DOMAIN order /\ arrived[taken + 1] = 0
          /\ MayHold(w, 2, arrived[taken + 2])
          /\ MayHold(w, 3, arrived[taken + 3])
      <3>1. taken + 3 <= Len(arrived)
        BY <2>1, <2>2, Lengths
      <3> QED BY <2>2, <3>1, BlockRead
    <2> HIDE DEF d, w
    <2>5. d[1] = TestID /\ d[2] = arrived[taken + 2] /\ d[3] = arrived[taken + 3]
      BY <2>2, <2>3, <2>4 DEF TestID
    <2>6. Unpack(d) = [width |-> d[2], height |-> d[3]]
      BY <2>2, <2>3, <2>5 DEF Unpack
    <2>7. Unpack(d) # Throws
      BY <2>6 DEF Throws
    <2> QED BY <2>4, <2>5, <2>6, <2>7
  <1> QED BY <1>2, <1>3
    DEF Next, PackBegin, PackId, PackLength, PackBody, Send, SendNothing, Write,
        other, vars

-----------------------------------------------------------------------------
(* Every step keeps the invariant.                                            *)
LEMMA NextMsg == MsgInv /\ [Next]_vars => MsgInv'
  <1> SUFFICES ASSUME MsgInv, [Next]_vars PROVE MsgInv'
    OBVIOUS
  <1>1. /\ TypeOK /\ BufferInv /\ PackInv /\ PendingInv
        /\ BlocksHoldTheirMessages /\ LastInv
    BY DEF MsgInv
  <1>2. TypeOK'
    <2>1. CASE UNCHANGED vars
      BY <1>1, <2>1 DEF vars, TypeOK
    <2> QED BY <1>1, <2>1, PackTyped, TransferTyped DEF Next
  <1>3. BufferInv' /\ PackInv' /\ PendingInv'
    BY <1>1, NextBuffer, NextPack, NextPending
  <1>4. BlocksHoldTheirMessages' /\ LastInv'
    BY <1>1, NextBlocks, NextLast
  <1> QED BY <1>2, <1>3, <1>4 DEF MsgInv

(* Types, for any capacity of the stream: Pack never writes beside the array. *)
THEOREM MsgTyped == Spec => []TypeOK
  <1>1. MsgInv => TypeOK
    BY DEF MsgInv
  <1> QED BY <1>1, InitMsg, NextMsg, PTL DEF Spec

(* Although Pack writes into the array that pending writes are still taken    *)
(* from: a write that was finished before the next Pack has sent its message, *)
(* and what another one does not hold of its own is of a later message or a   *)
(* zero; never of an older one.                                               *)
THEOREM BlocksAreRight == Spec => []BlocksHoldTheirMessages
  <1>1. MsgInv => BlocksHoldTheirMessages
    BY DEF MsgInv
  <1> QED BY <1>1, InitMsg, NextMsg, PTL DEF Spec

(* However the reads cut the stream, Unpack restores the body of every        *)
(* portion that begins behind the length of a block, whatever Pack has        *)
(* written meanwhile: its block's own, or fields of later messages and zeros. *)
THEOREM BodiesAreRight == Spec => []BodiesAreRestored
  <1>1. MsgInv => BodiesAreRestored
    BY DEF MsgInv, LastInv, BodiesAreRestored
  <1> QED BY <1>1, InitMsg, NextMsg, PTL DEF Spec
=============================================================================
