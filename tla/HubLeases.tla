------------------------------ MODULE HubLeases ------------------------------
(***************************************************************************)
(* What the hub promises to the programs around it, without its list, its  *)
(* sockets or its loops: a table of leases.  A heartbeat grants or renews  *)
(* the lease of its port, time wears every lease, and a lease is taken     *)
(* away only when its holder was silent for more than twice the interval   *)
(* it announced, or when the hub stops.                                    *)
(***************************************************************************)
EXTENDS Integers

CONSTANTS Minute, AgeCap

VARIABLE leases      \* a set of [port, interval, silent]

Lease == [port : Int, interval : Int, silent : Nat]

Init == leases = {}

Renew(port, interval) ==
  leases' = {l \in leases : l.port # port}
              \cup {[port |-> port, interval |-> interval, silent |-> 0]}

Expire(l) ==
  /\ l.silent >= (2 * l.interval + 1) * Minute
  /\ leases' = leases \ {l}

HubStops == leases' = {}

Wear(age) == IF age < AgeCap THEN age + 1 ELSE age

Tick == leases' = {[l EXCEPT !.silent = Wear(l.silent)] : l \in leases}

(* Bounded for TLC by the leases a step can mention.                       *)
Next ==
  \/ \E l \in leases' : l.silent = 0 /\ Renew(l.port, l.interval)
  \/ \E l \in leases : Expire(l)
  \/ HubStops
  \/ Tick

Spec == Init /\ [][Next]_leases

(* One lease per port.                                                     *)
OneLeasePerPort == \A l, k \in leases : l.port = k.port => l = k
=============================================================================
