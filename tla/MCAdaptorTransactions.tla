----------------------- MODULE MCAdaptorTransactions -----------------------
(* The instances of AdaptorTransactions that TLC checks: two lmdb adaptors, *)
(* "data" and its journal "log", a model adaptor that is mapped to "data", *)
(* and a file adaptor that also has "log" for its journal.                 *)
EXTENDS AdaptorTransactions, TLC

MCAdaptors == {"data", "log", "model", "files"}
MCTransactional == {"data", "log"}
MCJournalOf == ("data" :> "log") @@ ("model" :> "log") @@ ("files" :> "log")
MCMappedTo == "model" :> "data"

(* No adaptor is a journal of its journal: what is proved about requests of *)
(* one operation is about configurations like this one.                    *)
ASSUME NoCircleOfJournals

CONSTANTS r1, r2

On(do, adaptors) == [do : {do}, on : adaptors]
MCWorkload ==
    (r1 :> (On("update", {"data", "files"}) \cup On("index", {"data"})))
        @@ (r2 :> (On("update", {"model"}) \cup On("read", {"data"}) \cup On("consume", {"log"})))
MCUpdates == [r \in {r1, r2} |-> On("update", {"data"})]
=============================================================================
