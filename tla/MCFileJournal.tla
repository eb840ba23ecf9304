----------------------------- MODULE MCFileJournal -----------------------------
(* The instance of FileJournal that TLC checks. *)
EXTENDS FileJournal, TLC

CONSTANTS a, b, x   (* entries; the filter of every consumer admits a and b *)

MCApplicable == [c \in Consumers |-> {a, b}]

(* Two requesters that overlap on behalf of the consumers: one asks for
   everything, the other takes the next entry and marks what it was given. *)
CONSTANT r1
MCAsks ==
    [r \in Requesters |->
        IF r = r1 THEN Option \ {"mark_entry_consumed"}
        ELSE {"get_next_for_consumer", "mark_entry_consumed"}]

(* A request that only reads meets the writer, but no other request and no
   consumer: it would neither see nor change anything of them. *)
MCReadersAlone ==
    \A r \in Requesters :
        (rpc[r] # "idle" /\ request[r].option \notin ForConsumer \cup {"mark_entry_consumed"}) =>
            /\ peer = [c \in Consumers |-> NoPeer]
            /\ \A s \in Requesters \ {r} : rpc[s] = "idle"

(* Entries that the filter treats alike are interchangeable. *)
Symmetry == Permutations({a, b})
================================================================================
