-------------------------------- MODULE Quota --------------------------------
(***************************************************************************)
(* What the ingest service's rate limiter promises, without threads,       *)
(* deques or locks: a client is admitted again only once the admission     *)
(* Limit places before it was stamped at least Window ticks ago.           *)
(* An admission carries the stamp it is accounted under, which is never    *)
(* later than the moment it is decided.                                    *)
(***************************************************************************)
EXTENDS Integers, Sequences

CONSTANTS Clients, Limit, Window, MaxTime

VARIABLES clock,     \* time.monotonic()
          admitted   \* per client, its admissions [stamp, at] in decision order

vars == <<clock, admitted>>

Admission == [stamp : Nat, at : Nat]

Init ==
  /\ clock = 0
  /\ admitted = [c \in Clients |-> <<>>]

HasRoom(log) ==
  /\ Limit > 0
  /\ Len(log) >= Limit => clock >= log[Len(log) - Limit + 1].stamp + Window

Admit(c) ==
  /\ HasRoom(admitted[c])
  /\ \E s \in 0..clock :
       admitted' = [admitted EXCEPT ![c] = Append(@, [stamp |-> s, at |-> clock])]
  /\ UNCHANGED clock

Tick ==
  /\ clock < MaxTime
  /\ clock' = clock + 1
  /\ UNCHANGED admitted

Next == Tick \/ \E c \in Clients : Admit(c)

Spec == Init /\ [][Next]_vars

=============================================================================
