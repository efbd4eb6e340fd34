------------------------------ MODULE MCOutreach ------------------------------
(* Voice, and with it Outreach: one contact with an email address and a phone  *)
(* number.  MaxRecords keeps out the runs that use every kind of record twice. *)
EXTENDS Voice
===============================================================================
