-------------------------- MODULE MCProcessManager --------------------------
(* The sets that the configurations give Signals, Signalled and ZeroWords. *)
EXTENDS ProcessManager

NoSignals == {}
AllSignals == AliveStates \cup {"crashed"}
NobodySignalled == {}
AllModules == 1 .. Modules
NoCode == {}
SomeCode == {1, end_handle}
AllCode == Procs \cup {end_handle}
=============================================================================
