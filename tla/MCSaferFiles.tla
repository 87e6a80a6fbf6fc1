---------------------------- MODULE MCSaferFiles ----------------------------
(****************************************************************************)
(* Instances of SaferFiles: alice has the name a1, bob has b1 and b2.       *)
(*                                                                          *)
(* The run starts where SaferFiles gets by running a few operations alone:  *)
(* 1 is alice's StoreFile of a1 and 2 is alice's CreateInvitation for bob.  *)
(* In InvitedInit two operations that failed follow, and every fault is     *)
(* still to come; in AcceptedInit 3 is bob's AcceptInvitation as b1, the    *)
(* faults have been spent, and one operation more runs than in InvitedInit. *)
(****************************************************************************)
EXTENDS SaferFiles

CONSTANTS alice, bob, a1, b1, b2

MCUserOf == [n \in Name |-> IF n = a1 THEN alice ELSE bob]

Ran(k) == [j \in Op |-> IF j <= k THEN [NewOperation EXCEPT !.pc = "done"] ELSE NewOperation]

At1(v, none) == [j \in Op |-> IF j = 1 THEN v ELSE none]

SharedFile ==
  /\ box = [b \in Op |-> IF b \in {1, 2} THEN [file |-> 1, epoch |-> 1] ELSE None]
  /\ status = At1(1, 0)
  /\ structure = At1([epoch |-> 1, boxes |-> [u \in User |-> IF u = bob THEN 2 ELSE 0]],
                     NoStructure)
  /\ metadata = At1([version |-> 1, tail |-> 1, count |-> 1], None)
  /\ chunk = At1([file |-> 1, epoch |-> 1, index |-> 0, prev |-> 0, content |-> <<1>>], None)
  /\ LT!Init
  /\ fence = [r \in Resource |-> 0]
  /\ restarts = 0
  /\ hist = At1(<<<<1>>>>, <<>>)

OwnerEntry == [owner |-> TRUE, file |-> 1, box |-> 1, via |-> 0]
BranchEntry == [owner |-> FALSE, file |-> 1, box |-> 2, via |-> 2]

InvitedInit ==
  /\ SharedFile
  /\ entry = [n \in Name |-> IF n = a1 THEN OwnerEntry ELSE None]
  /\ invitation = [i \in Op |-> IF i = 2 THEN [to |-> bob, file |-> 1, box |-> 2] ELSE None]
  /\ op = Ran(4) /\ revocations = 0

AcceptedInit ==
  /\ SharedFile
  /\ entry = [n \in Name |-> IF n = a1 THEN OwnerEntry ELSE IF n = b1 THEN BranchEntry ELSE None]
  /\ invitation = [i \in Op |-> None]
  /\ op = Ran(3) /\ revocations = MaxFaults

SharedSpec == (InvitedInit \/ AcceptedInit) /\ [][Next]_vars
==============================================================================
