----------------------------- MODULE MCSamples -----------------------------
(* Instances of Samples for TLC. *)
EXTENDS Samples

\* Each shape: entries by name, by number, with a total; rows of groups, of which the
\* record leaves one out.
FiveKinds == {"ProcInfo", "SysProcBuddyInfo", "SysProcStat", "ProcAcct", "SysProcMemInfo"}
=============================================================================
