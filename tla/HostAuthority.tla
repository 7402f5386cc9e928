--------------------------- MODULE HostAuthority ---------------------------
(***************************************************************************)
(* What the host clock promises, without messages: authority is a line of  *)
(* hosts.  Only the last host of the line hands it over, to one successor; *)
(* everybody else learns the line one step at a time and skips nothing.    *)
(* docs/protocol.md, "Host clock and recovery".                            *)
(***************************************************************************)
EXTENDS Integers, Sequences

CONSTANTS Peers, Host0

VARIABLES
  view,     \* the clock each peer trusts
  lineage   \* lineage[e + 1] is the host of epoch e

vars == <<view, lineage>>

Init ==
  /\ lineage = <<Host0>>
  /\ view = [p \in Peers |-> [epoch |-> 0, host |-> Host0]]

Successor(p, q) == [epoch |-> view[p].epoch + 1, host |-> q]

\* The host of the newest epoch, and it alone, names the next host.
HandOver(p, q) ==
  /\ view[p].host = p /\ q # p
  /\ view[p].epoch + 1 = Len(lineage)
  /\ lineage' = Append(lineage, q)
  /\ view' = [view EXCEPT ![p] = Successor(p, q)]

\* A peer learns who follows the host it trusts.
Learn(p) ==
  /\ view[p].epoch + 2 \in DOMAIN lineage
  /\ view' = [view EXCEPT ![p] = Successor(p, lineage[view[p].epoch + 2])]
  /\ UNCHANGED lineage

Next == \E p \in Peers : Learn(p) \/ \E q \in Peers : HandOver(p, q)

Spec == Init /\ [][Next]_vars
=============================================================================
