---------------------------- MODULE MCPagination ----------------------------
(* Pagination for TLC.                                                     *)
EXTENDS Pagination
=============================================================================
