------------------------------ MODULE MCPermits ------------------------------
(* Permits for TLC: two permits for the webhook, one for the exporter.     *)
EXTENDS Permits

MCMaxInflight == [o \in Outlet |-> IF o = "webhook" THEN 2 ELSE 1]
MCTimeout == [o \in Outlet |-> IF o = "webhook" THEN 2 ELSE 1]
=============================================================================
