---------------------------- MODULE SessionEvents ----------------------------
(* What the server of TestRayTrace.unity/Assets/Net promises the application  *)
(* about its sessions: a session is announced once, then its bytes arrive in  *)
(* order, none missing and none twice, then its end is reported at most once, *)
(* and nothing follows.  Sessions are independent of each other.              *)
EXTENDS Integers

CONSTANTS Sessions, MaxData

VARIABLES
    stage,  \* session -> "unseen", "open" or "closed"
    upto,   \* session -> the number of its bytes handed over
    now     \* the event the application is handling, NoEvent between events

NoEvent == [type |-> "None", sid |-> 0, from |-> 1, upto |-> 0]

Init ==
    /\ stage = [s \in Sessions |-> "unseen"]
    /\ upto = [s \in Sessions |-> 0]
    /\ now = NoEvent

Connect(s) ==
    /\ now = NoEvent
    /\ stage[s] = "unseen"
    /\ stage' = [stage EXCEPT ![s] = "open"]
    /\ now' = [type |-> "Connect", sid |-> s, from |-> 1, upto |-> 0]
    /\ UNCHANGED upto

Data(s) ==
    /\ now = NoEvent
    /\ stage[s] = "open"
    /\ \E n \in (upto[s] + 1)..MaxData :
         /\ upto' = [upto EXCEPT ![s] = n]
         /\ now' = [type |-> "Data", sid |-> s, from |-> upto[s] + 1,
                     upto |-> n]
    /\ UNCHANGED stage

Disconnect(s) ==
    /\ now = NoEvent
    /\ stage[s] = "open"
    /\ stage' = [stage EXCEPT ![s] = "closed"]
    /\ now' = [type |-> "Disconnect", sid |-> s, from |-> 1, upto |-> 0]
    /\ UNCHANGED upto

(* The application is done with the event, or has failed on it.               *)
Return ==
    /\ now # NoEvent
    /\ now' = NoEvent
    /\ UNCHANGED <<stage, upto>>

Next == Return \/ \E s \in Sessions : Connect(s) \/ Data(s) \/ Disconnect(s)

Spec == Init /\ [][Next]_<<stage, upto, now>>
=============================================================================
