------------------------------- MODULE MC_Core -------------------------------
(* Small values for the constants of CallSystem. *)
EXTENDS CallProperties

MC_OneShop == [o \in Orders |-> "shop"]

(* A tick is longer than the stale timeout and shorter than the first delay. *)
MC_RetryDelays == <<1, 2>>
MC_NoDelays == <<0, 0>>

Confirms == [disposition |-> "completed", intent |-> "CONFIRMED", confidence |-> 9]
Cancels == [disposition |-> "completed", intent |-> "CANCELLED", confidence |-> 7]
Mumbles == [disposition |-> "completed", intent |-> "CONFIRMED", confidence |-> 6]
Absent == [disposition |-> "no_answer", intent |-> "none", confidence |-> NoConfidence]

MC_AllReports == {Confirms, Cancels, Mumbles, Absent, WorkerFailure}
MC_Reports == {Confirms, Absent}
MC_FewReports == {Mumbles, Absent}
MC_Confirms == {Confirms}
MC_OneReport == {Absent}
=============================================================================
