----------------------------- MODULE MCRunStore -----------------------------
(* A small instance of RunStore for TLC, in one of two settings: two hosts  *)
(* of two contract versions that take the run from each other, with an      *)
(* input of either, a short log (shorter still with the input that panics)  *)
(* and no timer; or one host with a timer, inputs of its own version and a  *)
(* log as long as its inputs make it.                                       *)
EXTENDS RunStore, TLC

CONSTANTS h1, h2, ShortLog, ShortTime

VARIABLE alone    \* the setting

MCVersion == h1 :> 1 @@ h2 :> 2

MCInit == Init /\ alone \in BOOLEAN

Within ==
  /\ alone' = alone
  /\ IF alone
     THEN /\ now' <= ShortTime
          /\ \A n \in 1 .. Len(inbox') : stamp'[inbox'[n]] = Version[h1]
     ELSE /\ Len(log') + (IF \E n \in 1 .. Len(accepted') : accepted'[n] \in Bad THEN 1 ELSE 0) <= ShortLog
          /\ \A n \in 1 .. Len(log') : log'[n].timer = NoTimer
          /\ \A n \in 1 .. Len(inbox') : inbox'[n] \in Bad \cup {Commission} => stamp'[inbox'[n]] = Version[h1]

MCHostStep(h) == (alone => h = h1) /\ HostStep(h) /\ Within

MCNext ==
  \/ Tick /\ Within
  \/ EnqueueFromOutside /\ Within
  \/ \E h \in Host : MCHostStep(h)

\* The service ticks for as long as it lives, and a tick folds what waits.
MCSpec ==
  /\ MCInit
  /\ [][MCNext]_<<vars, alone>>
  /\ \A h \in Host : WF_<<vars, alone>>(MCHostStep(h))

\* fold.rs count_poison, consume_poison: an inbox that holds inputs is folded to
\* its end by a host that is alone, or the run finishes; an input whose fold
\* panics every time does not hold up the ones behind it.
InboxDrainsAlone == alone => InboxDrains

=============================================================================
