----------------------------- MODULE MCPAMLogin -----------------------------
(***************************************************************************)
(* Two logins, every configuration, and a core that is started twice.         *)
(***************************************************************************)
EXTENDS PAMLogin

MCGenerated == <<"first", "second">>
=============================================================================
