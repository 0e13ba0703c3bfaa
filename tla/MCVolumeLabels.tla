--------------------------- MODULE MCVolumeLabels ---------------------------
(* VolumeLabels for TLC.                                                   *)
EXTENDS VolumeLabels

Sorted == <<"?", "a", "b", "c", "e">>
Written == {[labels |-> <<<<"a", "x">>>>, params |-> [nocow |-> TRUE, comp |-> "zstd"]],
            [labels |-> <<<<"?", "x">>, <<"a", "x">>, <<"a", "y">>, <<"b", "!">>, <<"c", "x">>,
                          <<CreatedBy, Cli>>>>, params |-> [nocow |-> FALSE, comp |-> BadParam]]}
Given == {<<<<"a", "x">>>>, <<<<CreatedBy, Cli>>>>, <<<<"?", "x">>>>,
          <<<<"b", "x">>, <<"c", "y">>, <<"e", "y">>>>}
Defaults == <<<<"e", "x">>, <<CreatedBy, Cli>>, <<"?", "x">>, <<"b", "!">>>>
Set == {[nocow |-> TRUE, comp |-> None], [nocow |-> FALSE, comp |-> "zstd"]}
Classes == {[nocow |-> TRUE, comp |-> None], [nocow |-> None, comp |-> BadParam]}
=============================================================================
