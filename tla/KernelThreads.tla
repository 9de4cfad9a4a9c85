---------------------------- MODULE KernelThreads ----------------------------
(* The kernel threads that use a primitive, and the null pointer.           *)
CONSTANTS Thread, NULL
=============================================================================
