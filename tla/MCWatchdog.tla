----------------------------- MODULE MCWatchdog -----------------------------
(***************************************************************************)
(* An instance of Watchdog for TLC: ages up to a unit more than the        *)
(* longest backoff, and backfills that outlast the stale threshold.        *)
(***************************************************************************)
EXTENDS Watchdog
=============================================================================
