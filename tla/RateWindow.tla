------------------------------ MODULE RateWindow ------------------------------
(***************************************************************************)
(* What a rate limiter promises: a key has a window while it is asked for, *)
(* a window has a count and an end, and a request is let through when the  *)
(* count is within the limit that holds when it is asked.                  *)
(***************************************************************************)
EXTENDS Naturals

CONSTANTS Key, Window, Limit, NoWindow

VARIABLES window   \* of each key: count and time left

Init == window = [k \in Key |-> NoWindow]

Count(k) == IF window[k] = NoWindow THEN 1 ELSE window[k].count + 1
Left(k) == IF window[k] = NoWindow THEN Window ELSE window[k].left

Check(k) == window' = [window EXCEPT ![k] = [count |-> Count(k), left |-> Left(k)]]

(* Time passes for all windows alike; one that has no time left is over.   *)
Tick ==
  window' = [k \in Key |->
               IF window[k] = NoWindow \/ window[k].left = 0 THEN NoWindow
               ELSE [window[k] EXCEPT !.left = @ - 1]]

(* The instant at which a window ends may count as in it or not.           *)
Close == \E ended \in SUBSET {k \in Key : window[k] # NoWindow /\ window[k].left = 0} :
           window' = [k \in Key |-> IF k \in ended THEN NoWindow ELSE window[k]]

Next == Tick \/ Close \/ \E k \in Key : Check(k)

(* A limiter that keeps the windows in memory forgets them at a restart.   *)
Forget == window' = [k \in Key |-> NoWindow]

Spec == Init /\ [][Next \/ Forget]_window
=============================================================================
