------------------------------ MODULE BlockSet ------------------------------
(***************************************************************************)
(* What recovered_intervals.h promises its callers: a set of physical      *)
(* blocks, to which a range can be added and which says of a range whether *)
(* it is disjoint from the set (0), contained in it (1) or neither (2).    *)
(* An insertion may be refused, when memory runs out, and then changes     *)
(* nothing.                                                                *)
(***************************************************************************)
EXTENDS Integers

CONSTANT Requests    \* the ranges <<s, len>> callers ask about

VARIABLES blocks,    \* the recorded blocks
          call,      \* the call being served
          ret        \* what the last call returned

vars == <<blocks, call, ret>>

Blocks(s, len) == s .. s + len - 1

NoCall == [op |-> "none", s |-> 0, len |-> 0]

Init == blocks = {} /\ call = NoCall /\ ret = 0

Call(op, s, len) == /\ call = NoCall
                    /\ call' = [op |-> op, s |-> s, len |-> len]
                    /\ UNCHANGED <<blocks, ret>>

Add == /\ call.op = "add"
       /\ blocks' = blocks \cup Blocks(call.s, call.len)
       /\ ret' = 0
       /\ call' = NoCall

Refuse == /\ call.op = "add"
          /\ ret' = -1
          /\ call' = NoCall
          /\ UNCHANGED blocks

\* A range without blocks overlaps nothing.
Relation(range) == IF range \cap blocks = {} THEN 0
                   ELSE IF range \subseteq blocks THEN 1 ELSE 2

Query == /\ call.op = "query"
         /\ ret' = Relation(Blocks(call.s, call.len))
         /\ call' = NoCall
         /\ UNCHANGED blocks

Next == \/ \E op \in {"add", "query"}, r \in Requests : Call(op, r[1], r[2])
        \/ Add \/ Refuse \/ Query

Spec == Init /\ [][Next]_vars
=============================================================================
