---------------------------- MODULE DelayedChange -----------------------------
(***************************************************************************)
(* The rule every risk parameter of Aera is meant to follow, whatever it   *)
(* is: a tightening is instant, a loosening waits.                         *)
(*   - A change in force at once admits nothing that was refused before,   *)
(*     and leaves no older announcement waiting to undo it.                *)
(*   - Anything else is announced, and its whole delay, the one in force   *)
(*     when it was announced, passes before it is enacted as announced.    *)
(***************************************************************************)
EXTENDS Integers

CONSTANT NoLooser(_, _)  \* NoLooser(a, b): b admits nothing that a refuses

VARIABLES
  now,
  delay,
  live,       \* the parameters in force
  announced,  \* the change that waits, if eta is not 0
  eta

change_vars == <<now, delay, live, announced, eta>>

Init == now >= 1 /\ eta = 0

TimePasses ==
  /\ now' = now + 1
  /\ UNCHANGED <<delay, live, announced, eta>>

DelaySet == delay' \in Nat /\ UNCHANGED <<now, live, announced, eta>>

Restrict ==
  /\ NoLooser(live, live')
  /\ eta' = 0
  /\ UNCHANGED <<now, delay>>

Announce ==
  /\ eta' = now + delay
  /\ UNCHANGED <<now, delay, live>>

Enact ==
  /\ eta # 0 /\ now >= eta
  /\ live' = announced
  /\ eta' = 0
  /\ UNCHANGED <<now, delay>>

Withdraw ==
  /\ eta' = 0
  /\ UNCHANGED <<now, delay, live>>

Next == TimePasses \/ DelaySet \/ Restrict \/ Announce \/ Enact \/ Withdraw

Spec == Init /\ [][Next]_change_vars
===============================================================================
