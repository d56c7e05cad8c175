--------------------------- MODULE OrderedStage ---------------------------
(***************************************************************************)
(* What a stage of a flow promises, whatever component it wraps            *)
(* (processor/index.js:6-11, transporter/index.js:5-11): every entry it    *)
(* accepts is resolved into zero or more items, the entries in the order   *)
(* they were accepted, and the items leave the stage in that order.        *)
(***************************************************************************)
EXTENDS Naturals, Sequences

CONSTANTS Sources,  \* what the stage may accept
          MaxItems  \* bound: items one entry resolves into

VARIABLES accepted,  \* entries accepted and not resolved yet
          ready,     \* items resolved and not emitted yet
          emitted    \* items emitted so far

vars == <<accepted, ready, emitted>>

(* The items of one entry, in order; some of them may have been dropped.   *)
ItemsOf(s) ==
  UNION {{[i \in 1..n |-> <<s, f[i]>>] : f \in [1..n -> 1..MaxItems]} :
           n \in 0..MaxItems}

Increasing(items) ==
  \A i, j \in 1..Len(items) : i < j => items[i][2] < items[j][2]

Init == accepted = <<>> /\ ready = <<>> /\ emitted = <<>>

Accept(s) ==
  /\ accepted' = Append(accepted, s)
  /\ UNCHANGED <<ready, emitted>>

Resolve ==
  /\ accepted # <<>>
  /\ accepted' = Tail(accepted)
  /\ \E items \in ItemsOf(Head(accepted)) :
       Increasing(items) /\ ready' = ready \o items
  /\ UNCHANGED emitted

Emit ==
  \E k \in 1..Len(ready) :
    /\ emitted' = emitted \o SubSeq(ready, 1, k)
    /\ ready' = SubSeq(ready, k + 1, Len(ready))
    /\ UNCHANGED accepted

Next == (\E s \in Sources : Accept(s)) \/ Resolve \/ Emit

(* An accepted entry does not stay in the stage for ever.                  *)
Spec == Init /\ [][Next]_vars /\ WF_vars(Resolve) /\ WF_vars(Emit)
=============================================================================
