-------------------------- MODULE CapnLoggerStream --------------------------
(***************************************************************************)
(* The properties of CapnLogger that read the gzip file as one stream of   *)
(* events: the messages written, concatenated, followed by the batch       *)
(* still in memory.  They need FlattenSeq from SequencesExt, so they live  *)
(* apart from CapnLogger, which CapnLoggerProofs reasons about.            *)
(***************************************************************************)
EXTENDS CapnLogger, SequencesExt

(* Everything the file holds, followed by the batch still in memory. *)
Stream == FlattenSeq(written) \o orphans

(* Nothing is lost, duplicated or reordered by batching: the file         *)
(* followed by the pending batch is the records handed over, in order.   *)
StreamPreserved ==
    state # "fatal" => Stream = [i \in DOMAIN logged |-> Orphan(logged[i])]

(* A closed file holds every record handed to the logger: the destructor *)
(* writes the partial last batch.                                         *)
LosslessAtClose ==
    state = "closed" =>
        FlattenSeq(written) = [i \in DOMAIN logged |-> Orphan(logged[i])]

(* Spec section 9: the read ranges of a compute record are its read set. *)
ReadRangesEncoded ==
    state # "fatal" =>
        \A i \in DOMAIN Stream :
            Stream[i].kind = "comp" => Stream[i].rd = logged[i].rd
=============================================================================
