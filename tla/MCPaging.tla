------------------------------- MODULE MCPaging -------------------------------
(* Small instances of Paging for TLC: rows are 1..6, the key of a row is   *)
(* the row, and the list starts with the even ones, so that new rows land  *)
(* before, between and after the old ones.                                 *)
EXTENDS Paging

MCRows == 1..6
MCKey == [x \in MCRows |-> x]
Evens == {2, 4, 6}
=============================================================================
