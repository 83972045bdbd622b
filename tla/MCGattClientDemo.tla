-------------------------- MODULE MCGattClientDemo --------------------------
(***************************************************************************)
(* Small servers for GattClientDemo: every kind of characteristic alone,   *)
(* every ordered pair of the kinds that differ in control flow, and a few  *)
(* triples where skipped nodes stand between nodes with work.              *)
(***************************************************************************)
EXTENDS GattClientDemo

Plain    == [read |-> FALSE, notify |-> FALSE, indicate |-> FALSE, hasCccd |-> FALSE]
Readable == [Plain EXCEPT !.read = TRUE]
Notifier == [Plain EXCEPT !.notify = TRUE, !.hasCccd = TRUE]
Both     == [Readable EXCEPT !.indicate = TRUE, !.hasCccd = TRUE]
NoCccd   == [Readable EXCEPT !.notify = TRUE]

Shapes == {Plain, Readable, Notifier, Both, NoCccd}

MCLayouts == {<<>>} \union {<<c>> : c \in Characteristic}
                    \union {<<a, b>> : a, b \in Shapes}
                    \union {<<Plain, Both, Notifier>>, <<Both, Plain, Both>>,
                            <<NoCccd, Notifier, Readable>>, <<Notifier, NoCccd, Both>>}
=============================================================================
