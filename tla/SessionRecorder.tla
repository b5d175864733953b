-------------------------- MODULE SessionRecorder --------------------------
(***************************************************************************)
(* What a session promises about its recordings, without locks, goroutines *)
(* or files.  Terminal operations (output chunks and resizes) are admitted *)
(* one at a time.  At most one bundle is open; a bundle is an unbroken run *)
(* of operations, it is never more than one operation behind while open,   *)
(* and it does not change once it is sealed.                               *)
(***************************************************************************)
EXTENDS Naturals, Sequences

VARIABLES admitted,  \* number of operations the terminal model has applied
          bundles    \* every bundle so far: operations from+1 .. upto

vars == <<admitted, bundles>>

Bundles == [from : Nat, upto : Nat, open : BOOLEAN]
Fresh   == [from |-> admitted, upto |-> admitted, open |-> TRUE]
IsOpen(i) == i \in DOMAIN bundles /\ bundles[i].open

Init == admitted = 0 /\ bundles \in {<<>>, <<Fresh>>}

(* The next operation is admitted only when the last one is on record.      *)
Admit == /\ \A i \in DOMAIN bundles : IsOpen(i) => bundles[i].upto = admitted
         /\ admitted' = admitted + 1
         /\ UNCHANGED bundles

Put(i) == /\ IsOpen(i) /\ bundles[i].upto < admitted
          /\ bundles' = [bundles EXCEPT ![i].upto = @ + 1]
          /\ UNCHANGED admitted

Open == /\ \A i \in DOMAIN bundles : ~IsOpen(i)
        /\ bundles' = Append(bundles, Fresh)
        /\ UNCHANGED admitted

Seal(i) == /\ IsOpen(i)
           /\ bundles' = [bundles EXCEPT ![i].open = FALSE]
           /\ UNCHANGED admitted

Next == Admit \/ Open \/ \E i \in DOMAIN bundles : Put(i) \/ Seal(i)
Spec == Init /\ [][Next]_vars

TypeOK == admitted \in Nat /\ bundles \in Seq(Bundles)
=============================================================================
