------------------------------ MODULE Recycling ------------------------------
(***************************************************************************)
(* What the submission core promises, without any of its machinery: the    *)
(* host acquires resources and gives them back, the device uses some of    *)
(* those that are held, and nothing is given back while the device uses it. *)
(***************************************************************************)
CONSTANT Resources

VARIABLES held,   \* resources the host has allocated
          busy    \* resources the device is using

Init == held = {} /\ busy = {}

Acquire == held \subseteq held' /\ held' \subseteq Resources /\ busy' = busy
Start   == busy \subseteq busy' /\ busy' \subseteq held /\ held' = held
Finish  == busy' \subseteq busy /\ held' = held
Release == busy \subseteq held' /\ held' \subseteq held /\ busy' = busy

Next == Acquire \/ Start \/ Finish \/ Release

Spec == Init /\ [][Next]_<<held, busy>>
==============================================================================
