------------------------------ MODULE FrontendMC ------------------------------
(* Two connections, three events, and buffers of one message each.            *)
EXTENDS Frontend
===============================================================================
