------------------------------ MODULE SessionSet ------------------------------
(***************************************************************************)
(* What the whitelist of tokens promises: a login opens a session of its   *)
(* own, the session lives until it is closed, and no session that was      *)
(* closed lives again.  Several sessions may close at once (a password     *)
(* change, a restart); tokens, their ages and their renewal do not show.   *)
(***************************************************************************)
VARIABLES
  live,  \* the sessions that are open
  over   \* the sessions that were closed

Init == live = {} /\ over = {}

Open ==
  /\ \E login \in live' : login \notin live \cup over /\ live' = live \cup {login}
  /\ UNCHANGED over

Close ==
  \E closed \in SUBSET live :
    /\ live' = live \ closed
    /\ over' = over \cup closed

Next == Open \/ Close

Spec == Init /\ [][Next]_<<live, over>>
===============================================================================
