--------------------------- MODULE ProtectedEntry ---------------------------
(***************************************************************************)
(* What the entry pipeline promises of a bracket, without its waits, rows, *)
(* timeouts and connections: the entry is requested, it is put on the      *)
(* books, it goes live in one step with its protection, and while it is    *)
(* live it stays on the books - unless the broker was asked to cancel it.  *)
(* The exception is real: the row of an entry is closed when its cancel is *)
(* sent, and until the broker confirms the cancel the entry may fill.      *)
(***************************************************************************)
CONSTANT Brackets

VARIABLES
    entry,    \* the entry as the market sees it; one that is over cannot fill
    revoked,  \* brackets whose entry the broker was asked to cancel
    booked,   \* brackets whose entry the local books count as active
    guarded   \* brackets with a working protective stop

pvars == <<entry, revoked, booked, guarded>>

Init ==
    /\ entry = [i \in Brackets |-> "none"]
    /\ revoked = {}
    /\ booked = {}
    /\ guarded = {}

\* The entry is at the broker and cannot fill.
Request(i) ==
    /\ entry[i] = "none"
    /\ entry' = [entry EXCEPT ![i] = "pending"]
    /\ UNCHANGED <<revoked, booked, guarded>>

Book(i) ==
    /\ entry[i] # "none"
    /\ i \notin revoked
    /\ booked' = booked \cup {i}
    /\ UNCHANGED <<entry, revoked, guarded>>

\* From here on the entry can fill.
GoLive(i) ==
    /\ entry[i] = "pending"
    /\ i \in booked \ revoked
    /\ entry' = [entry EXCEPT ![i] = "live"]
    /\ guarded' = guarded \cup {i}
    /\ UNCHANGED <<revoked, booked>>

\* The broker is asked to cancel the entry, which can still fill when it was
\* live; it may leave the books at once.
Revoke(i) ==
    /\ entry[i] \in {"pending", "live"}
    /\ i \notin revoked
    /\ revoked' = revoked \cup {i}
    /\ booked' \in {booked, booked \ {i}}
    /\ UNCHANGED <<entry, guarded>>

\* The entry fills, is cancelled or is refused at the broker; its stop may go
\* with it.
Close(i) ==
    /\ entry[i] \in {"pending", "live"}
    /\ entry' = [entry EXCEPT ![i] = "over"]
    /\ revoked' = revoked \ {i}
    /\ guarded' \in {guarded, guarded \ {i}}
    /\ UNCHANGED booked

\* An entry that is over may leave the books.
Unbook(i) ==
    /\ entry[i] = "over"
    /\ booked' = booked \ {i}
    /\ UNCHANGED <<entry, revoked, guarded>>

\* The broker ends the stop.
LoseStop(i) ==
    /\ i \in guarded
    /\ guarded' = guarded \ {i}
    /\ UNCHANGED <<entry, revoked, booked>>

Next ==
    \E i \in Brackets :
       \/ Request(i)
       \/ Book(i)
       \/ GoLive(i)
       \/ Revoke(i)
       \/ Close(i)
       \/ Unbook(i)
       \/ LoseStop(i)

Spec == Init /\ [][Next]_pvars

=============================================================================
