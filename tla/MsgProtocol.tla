----------------------------- MODULE MsgProtocol -----------------------------
(* MessagePacker.Pack writes every message into one static stream and hands   *)
(* the stream's array itself to Server.Send, whose BeginWrite reads it later, *)
(* while the next Pack may be writing.  At the other end Unpack gets whatever *)
(* portion one read returned.  The unit is the 32-bit int.                    *)
EXTENDS Integers, Sequences

CONSTANTS Messages,  \* bound: messages packed
          Bodies,    \* bound: what width and height may be
          Words,     \* capacity of the stream's array: 64 ints in the code
          BufLen     \* bound: ints that one read returns at most

(* A MsgTest is new, with 0 in its fields, or one that Unpack has filled with *)
(* what a client had sent.                                                    *)
ASSUME MsgAssumption ==
    /\ Messages \in Nat
    /\ Bodies \subseteq Int /\ 0 \in Bodies
    /\ Words \in Nat /\ Words >= 4
    /\ BufLen \in Nat \ {0}

VARIABLES
    msgs,      \* the fields of the messages that Pack is called for
    buffer,    \* stream.GetBuffer()
    length,    \* stream.Length
    pc,        \* the statement of Pack or Server.Send to run next
    packed,    \* Pack was called for the messages 1..packed
    order,     \* the messages of the writes begun, one block of Words each
    arrived,   \* what the writes have taken from the array so far
    disturbed, \* history: writes still pending when Pack was called again
    taken,     \* how much of it the other end has read
    last       \* the last portion read, [block, place, size], and its Unpack

vars == <<msgs, buffer, length, pc, packed, order, arrived, disturbed, taken,
          last>>
other == <<msgs, order, arrived, taken, last>>

Positions == 0..(Words - 1)
MsgTest(set) == [width : set, height : set]
TestID == 0

Throws == <<>>

(* Mutant: the fields are read in another order than they are written.        *)
UnpackHeightFirst(d) ==
    IF d[1] = TestID /\ Len(d) >= 3
    THEN [height |-> d[2], width |-> d[3]] ELSE Throws

(* Unpack: Create returns null for any other id, and the call on it throws,   *)
(* as ReadInt32 does at the end of the data.                                  *)
Unpack(d) ==
    IF d[1] = TestID /\ Len(d) >= 3
    THEN [width |-> d[2], height |-> d[3]] ELSE Throws

Init ==
    /\ msgs \in [1..Messages -> MsgTest(Bodies)]
    /\ buffer = [i \in Positions |-> 0]
    /\ length = 0
    /\ pc = "idle"
    /\ packed = 0
    /\ order = <<>>
    /\ arrived = <<>>
    /\ disturbed = {}
    /\ taken = 0
    /\ last = [block |-> 1, place |-> 0, size |-> 0, msg |-> Throws]

-----------------------------------------------------------------------------
(* Pack, one Write after another.                                             *)
Pending == {w \in DOMAIN order : Len(arrived) < w * Words}

PackBegin ==
    /\ pc = "idle"
    /\ packed < Messages
    /\ packed' = packed + 1
    /\ length' = 0
    /\ disturbed' = disturbed \cup Pending
    /\ pc' = "id"
    /\ UNCHANGED <<buffer, other>>

(* Mutant: the stream is not positioned behind the length.                    *)
PackIdFirst ==
    /\ pc = "id"
    /\ buffer' = [buffer EXCEPT ![0] = TestID]
    /\ length' = 1
    /\ pc' = "width"
    /\ UNCHANGED <<packed, disturbed, other>>

(* Write makes the stream longer, which clears what SetLength has dropped:    *)
(* the four words of the message before.                                      *)
PackId ==
    /\ pc = "id"
    /\ buffer' = [buffer EXCEPT ![0] = 0, ![1] = TestID, ![2] = 0, ![3] = 0]
    /\ length' = 2
    /\ pc' = "width"
    /\ UNCHANGED <<packed, disturbed, other>>

PackBody(field, to) ==
    /\ pc = field
    /\ buffer' = [buffer EXCEPT ![length] = msgs[packed][field]]
    /\ length' = length + 1
    /\ pc' = to
    /\ UNCHANGED <<packed, disturbed, other>>

(* Mutant: the length is taken of the array, not of the stream.               *)
PackLengthOfArray ==
    /\ pc = "length"
    /\ buffer' = [buffer EXCEPT ![0] = 4 * Words - 4]
    /\ pc' = "send"
    /\ UNCHANGED <<length, packed, disturbed, other>>

PackLength ==
    /\ pc = "length"
    /\ buffer' = [buffer EXCEPT ![0] = 4 * length - 4]
    /\ pc' = "send"
    /\ UNCHANGED <<length, packed, disturbed, other>>

(* Server.Send: BeginWrite of the whole array, or no such session.            *)
Send ==
    /\ pc = "send"
    /\ order' = Append(order, packed)
    /\ pc' = "idle"
    /\ UNCHANGED <<msgs, buffer, length, packed, arrived, disturbed, taken,
                   last>>

SendNothing ==
    /\ pc = "send"
    /\ pc' = "idle"
    /\ UNCHANGED <<buffer, length, packed, disturbed, other>>

-----------------------------------------------------------------------------
(* The pool takes the array's content when the socket has room, the writes of *)
(* a socket one after the other.                                              *)
Write ==
    /\ Pending # {}
    /\ arrived' = Append(arrived, buffer[Len(arrived) % Words])
    /\ UNCHANGED <<msgs, buffer, length, pc, packed, order, disturbed, taken,
                   last>>

(* The other end reads n ints: OnDataReceived.                                *)
Receive(n) ==
    /\ taken + n <= Len(arrived)
    /\ last' = [block |-> (taken \div Words) + 1,
                place |-> taken % Words,
                size |-> n,
                msg |-> Unpack(SubSeq(arrived, taken + 1, taken + n))]
    /\ taken' = taken + n
    /\ UNCHANGED <<msgs, buffer, length, pc, packed, order, arrived, disturbed>>

Next ==
    \/ PackBegin \/ PackId \/ PackLength \/ Send \/ SendNothing \/ Write
    \/ PackBody("width", "height") \/ PackBody("height", "length")
    \/ \E n \in 1..BufLen : Receive(n)

Spec == Init /\ [][Next]_vars

-----------------------------------------------------------------------------
(* Every variable has its type; the stream grows as the message is written.   *)
TypeOK ==
    /\ msgs \in [1..Messages -> MsgTest(Int)]
    /\ buffer \in [Positions -> Int]
    /\ pc \in {"idle", "id", "width", "height", "length", "send"}
    /\ packed \in 0..Messages
    /\ length = CASE pc = "id" -> 0
                  [] pc = "width" -> 2
                  [] pc = "height" -> 3
                  [] OTHER -> IF packed = 0 THEN 0 ELSE 4
    /\ order \in Seq(1..packed)
    /\ arrived \in Seq(Int)
    /\ Len(arrived) <= Len(order) * Words
    /\ disturbed \subseteq DOMAIN order
    /\ taken \in 0..Len(arrived)
    /\ last \in [block : Nat, place : Positions, size : Nat,
                 msg : {Throws} \cup MsgTest(Int)]

(* What the array holds of a message, and what the words sent of it hold.     *)
Block(k) == [i \in Positions |-> CASE i = 0 -> 12
                                   [] i = 2 -> msgs[k].width
                                   [] i = 3 -> msgs[k].height
                                   [] OTHER -> 0]
Word(w, i) == arrived[(w - 1) * Words + i + 1]
Has(w, i) == (w - 1) * Words + i < Len(arrived)

(* The word v at place i of a block is the one of its message or, if another  *)
(* Pack came before the write was finished, of a later message, or a zero.    *)
MayHold(w, i, v) ==
    \/ v = Block(order[w])[i]
    \/ /\ w \in disturbed
       /\ \/ v = 0
          \/ \E k \in order[w]..packed : v = Block(k)[i]

(* A write that was finished before the next Pack has sent its message: the   *)
(* length without itself, the id, the body, and the rest of the array.        *)
(* Whatever Pack writes meanwhile, a block never holds a word older than its  *)
(* message: what it does not hold of it is of a later one, or the zeros that  *)
(* Pack puts there before its own words.                                      *)
BlocksHoldTheirMessages ==
    \A w \in DOMAIN order, i \in Positions :
        Has(w, i) => MayHold(w, i, Word(w, i))

(* What Pack writes behind the length is what Unpack reads: a portion that    *)
(* begins there and has the body becomes the block's own message, or, if the  *)
(* write was overtaken, one whose fields are of later messages or zero.       *)
BodiesAreRestored ==
    last.place = 1 /\ last.size >= 3 =>
        /\ last.msg # Throws
        /\ MayHold(last.block, 2, last.msg.width)
        /\ MayHold(last.block, 3, last.msg.height)
=============================================================================
