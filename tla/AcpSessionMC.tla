------------------------------ MODULE AcpSessionMC ------------------------------
(* Two siblings, on backend sessions of their own or on a shared one.          *)
EXTENDS AcpSession
===============================================================================
