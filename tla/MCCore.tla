------------------------------- MODULE MCCore -------------------------------
(***************************************************************************)
(* Core on small instances: one IRQ on one line and on the vectored        *)
(* interrupt.  IRQ 14 is the one the APBP raises for the host.             *)
(***************************************************************************)
EXTENDS Core

MCThread == {Cpu, Dsp}
=============================================================================
