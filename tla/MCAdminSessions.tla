-------------------------- MODULE MCAdminSessions ---------------------------
(* Two sign-ins and two changes at once, three passwords and two sessions.  *)
EXTENDS AdminSessions
=============================================================================
