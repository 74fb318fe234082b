------------------------------ MODULE Catalog ------------------------------
(***************************************************************************)
(* What the static registry promises its readers, with locks, files and    *)
(* processes left out: one atomic catalog.  A coordinate names one digest  *)
(* for ever, every named digest can be fetched, and the lifecycle of an    *)
(* entry only moves forward, in time as well.  A supersession and its      *)
(* successor appear together.                                              *)
(*                                                                         *)
(* Registry implements this module (property ImplementsCatalog there).     *)
(***************************************************************************)
EXTENDS Naturals

CONSTANTS
    Coordinate,     \* (capability, release) pairs
    Digest,         \* bundle digests
    Capability,     \* [Coordinate -> capability identifiers]
    Time,           \* instants callers may name
    None            \* an absent value

VARIABLES
    catalog,    \* the entry of each coordinate, or None
    stored      \* the digests whose bundle can be fetched

vars == <<catalog, stored>>

Status == {"active", "stale", "superseded", "revoked"}
Open == {"active", "stale"}
Entry == [digest: Digest, status: Status, assessed: Time, successor: Digest \cup {None}]

Init == catalog = [c \in Coordinate |-> None] /\ stored = {}

Named == {catalog[c].digest : c \in {x \in Coordinate : catalog[x] # None}}

\* A bundle is stored before it is named, and may be withdrawn while it is not.
Store(d) == stored' = stored \cup {d} /\ UNCHANGED catalog
Withdraw(d) == d \notin Named /\ stored' = stored \ {d} /\ UNCHANGED catalog

New(d, t) == [digest |-> d, status |-> "active", assessed |-> t, successor |-> None]

Publish(c, d, t) ==
    /\ catalog[c] = None
    /\ d \in stored
    /\ catalog' = [catalog EXCEPT ![c] = New(d, t)]
    /\ UNCHANGED stored

Supersede(c, d, t, old) ==
    /\ catalog[c] = None
    /\ d \in stored
    /\ catalog[old] # None
    /\ Capability[c] = Capability[old]
    /\ catalog[old].status \in Open
    /\ catalog[old].assessed <= t
    /\ catalog' = [catalog EXCEPT ![c] = New(d, t),
                                  ![old] = [@ EXCEPT !.status = "superseded", !.assessed = t,
                                                     !.successor = d]]
    /\ UNCHANGED stored

Assess(c, status, t) ==
    /\ catalog[c] # None
    /\ <<catalog[c].status, status>> \in {<<"active", "stale">>, <<"active", "revoked">>,
                                          <<"stale", "revoked">>}
    /\ catalog[c].assessed <= t
    /\ catalog' = [catalog EXCEPT ![c] = [@ EXCEPT !.status = status, !.assessed = t]]
    /\ UNCHANGED stored

Next ==
    \/ \E d \in Digest : Store(d) \/ Withdraw(d)
    \/ \E c \in Coordinate, d \in Digest, t \in Time :
          \/ Publish(c, d, t)
          \/ \E old \in Coordinate : Supersede(c, d, t, old)
    \/ \E c \in Coordinate, status \in Status, t \in Time : Assess(c, status, t)

Spec == Init /\ [][Next]_vars
=============================================================================
