------------------------ MODULE MCLateMaterialization ------------------------
(* Two columns of three rows: enough for row ids that reorder, drop and    *)
(* repeat rows, and for two columns that share row ids.                    *)
EXTENDS LateMaterialization

MCScans == {[filtered |-> FALSE, keep |-> {}, rowId |-> TRUE],
            [filtered |-> TRUE, keep |-> {2, 3}, rowId |-> FALSE]}
MCFilters == {[refs |-> <<1>>, keep |-> {1, 3}], [refs |-> <<2, 2>>, keep |-> {3}]}
MCProjections == {<<[pass |-> TRUE, refs |-> <<2>>], [pass |-> FALSE, refs |-> <<1>>]>>,
                  <<[pass |-> TRUE, refs |-> <<1>>], [pass |-> TRUE, refs |-> <<1>>]>>}
MCLimits == {[n |-> 2, offset |-> 0], [n |-> 1, offset |-> 1]}
MCSorts == {[cols |-> <<2, 1>>, key |-> 1, n |-> 0, offset |-> 0],
            [cols |-> <<1, 2>>, key |-> 2, n |-> 1, offset |-> 1]}
MCAggregates == {<<3, 1>>, <<1, 1>>}
=============================================================================
