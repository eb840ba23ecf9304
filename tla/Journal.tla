-------------------------------- MODULE Journal --------------------------------
(***************************************************************************)
(* What an adaptor that has a journal promises (interface of the journal): *)
(* the journal is a log that only grows at its end, and a consumer is      *)
(* given the entries that its filter lets through in the order of the log  *)
(* and without a gap.  An entry may be given again, until it is marked and *)
(* also after that when requests of the consumer overlap, but never one    *)
(* before the applicable ones in front of it have been given.              *)
(***************************************************************************)
EXTENDS Sequences, Naturals

CONSTANTS Entries, Consumers,
          Applicable        (* per consumer: what its consumerFilter admits *)

VARIABLES log, delivered

journalVars == <<log, delivered>>

JournalInit ==
    /\ log = <<>>
    /\ delivered = [c \in Consumers |-> {}]

(* add_entry.  An entry whose add has failed may come in with the next one. *)
AddToLog ==
    /\ UNCHANGED delivered
    /\ Len(log) < Len(log')
    /\ SubSeq(log', 1, Len(log)) = log
    /\ log' \in Seq(Entries)
    /\ \A j, k \in 1..Len(log') : log'[j] = log'[k] => j = k

(* get_entry with option get_next_for_consumer; an entry that is given again
   changes nothing here. *)
Deliver(c) ==
    /\ delivered' # delivered
    /\ \E k \in 1..Len(log) :
        /\ log[k] \in Applicable[c]
        /\ \A j \in 1..(k - 1) : log[j] \in Applicable[c] => log[j] \in delivered[c]
        /\ delivered' = [delivered EXCEPT ![c] = @ \cup {log[k]}]
    /\ UNCHANGED log

JournalNext == AddToLog \/ \E c \in Consumers : Deliver(c)

JournalSpec == JournalInit /\ [][JournalNext]_journalVars
================================================================================
