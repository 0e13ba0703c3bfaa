---------------------------- MODULE MCNfsExports ----------------------------
(* NfsExports for TLC.                                                     *)
EXTENDS NfsExports, TLC

CONSTANTS i1, i2

(* Two attachments from the first node, one matching both, one from the    *)
(* second.                                                                 *)
TwoAndOne == (i1 :> {{"a"}, {"a", "b"}}) @@ (i2 :> {{"a"}})
=============================================================================
