------------------------------ MODULE Session ------------------------------
(***************************************************************************)
(* What every service shares: the database session of a request.           *)
(***************************************************************************)

\* A column is in the UPDATE only when it differs from what the session loaded; the
\* others keep what is stored.
Written(new, loaded, stored) == IF new = loaded THEN stored ELSE new

=============================================================================
