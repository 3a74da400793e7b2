----------------------------- MODULE PictureOutput -----------------------------
(***************************************************************************)
(* What the decoder promises to whoever shows the pictures: they arrive in *)
(* decoding order, wait, and leave in output order, sequence by sequence   *)
(* and by picture order count within a sequence; what still waits when the *)
(* next sequence has begun may be discarded, all of it at once.            *)
(***************************************************************************)
EXTENDS Integers

CONSTANT Picture

VARIABLES
    place,      \* the place of an arrived picture in output order
    pending,    \* the pictures that wait
    number,     \* the output number of a picture, -1 before it is output
    count,      \* the pictures output
    sequence    \* the coded video sequence being decoded

vars == <<place, pending, number, count, sequence>>

Nowhere == [cvs |-> 0, poc |-> 0]

Before(p, q) ==
    \/ place[p].cvs < place[q].cvs
    \/ place[p].cvs = place[q].cvs /\ place[p].poc < place[q].poc

Shown == {p \in Picture : number[p] # -1}

Init ==
    /\ place = [p \in Picture |-> Nowhere]
    /\ pending = {}
    /\ number = [p \in Picture |-> -1]
    /\ count = 0
    /\ sequence = 0

(* A picture that is to be shown arrives: nothing after it was shown yet.  *)
Arrive ==
    \E p \in Picture :
        /\ place[p] = Nowhere
        /\ place'[p].cvs = sequence
        /\ \A q \in Picture \ {p} : place'[q] = place[q]
        /\ \A q \in Shown : Before(q, p)'
        /\ pending' = pending \cup {p}
        /\ UNCHANGED <<number, count, sequence>>

Show ==
    \E p \in pending :
        /\ \A q \in pending \ {p} : Before(p, q)
        /\ pending' = pending \ {p}
        /\ number' = [number EXCEPT ![p] = count]
        /\ count' = count + 1
        /\ UNCHANGED <<place, sequence>>

NewSequence ==
    /\ sequence' = sequence + 1
    /\ UNCHANGED <<place, pending, number, count>>

Discard ==
    /\ \A p \in pending : place[p].cvs < sequence
    /\ pending' = {}
    /\ UNCHANGED <<place, number, count, sequence>>

Next == Arrive \/ Show \/ NewSequence \/ Discard

Spec == Init /\ [][Next]_vars
===============================================================================
