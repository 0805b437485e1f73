--------------------------- MODULE SequenceHistory ---------------------------
(***************************************************************************)
(* The replay protection both ends of the scene stream keep: the highest   *)
(* sequence accepted of each identity, for a bounded number of identities. *)
(* A packet is a record with the fields identity and sequence.             *)
(***************************************************************************)
EXTENDS Naturals, FiniteSets

CONSTANT MaxIdentities   \* 64 in the code

ASSUME HistoryAssumption == MaxIdentities \in Nat \ {0}

\* No identity has been seen.
EmptyHistory == [identity \in {} |-> 0]

\* The history accepts a packet of a known identity only when its sequence
\* increased, and one of a new identity only while there is room for it.
Accepts(history, packet) ==
    IF packet.identity \in DOMAIN history
    THEN packet.sequence > history[packet.identity]
    ELSE Cardinality(DOMAIN history) < MaxIdentities

\* What an accepted packet leaves behind. A rejected one changes nothing.
Record(history, packet) ==
    [identity \in DOMAIN history \union {packet.identity} |->
        IF identity = packet.identity THEN packet.sequence ELSE history[identity]]
==============================================================================
