----------------------------- MODULE MCHostLink -----------------------------
(* HostLink with the APBP's IRQ on one line and no vectored interrupt. *)
EXTENDS HostLink

MCThread == {Cpu, Dsp}

\* Nothing is vectored here, so the switch that is found uninitialised is never
\* read: one value of it is enough.
MCInit == LinkInit /\ ~vinterrupt_context_switch

MCSpec == MCInit /\ [][LinkNext]_linkVars /\ LinkFairness
=============================================================================
