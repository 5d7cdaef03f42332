------------------------------ MODULE MCTiming ------------------------------
(* CoreTiming on small instances: counters of two one-bit halves, so that they
   wrap, and queues short enough to run empty and full within a turn. *)
EXTENDS CoreTiming
=============================================================================
