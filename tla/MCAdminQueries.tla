--------------------------- MODULE MCAdminQueries ---------------------------
(* The query cache followed for every query of the console. *)
EXTENDS AdminQueries

AllQueries == Queries

\* One query of a page with many buttons, of a list and of an entry.
BusyQueries == {"admin-users", "instance-tags", "admin-versions", "admin-reports", "admin-group-members"}

=============================================================================
