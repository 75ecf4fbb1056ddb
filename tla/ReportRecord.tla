---------------------------- MODULE ReportRecord ----------------------------
(***************************************************************************)
(* The life of a report as clients of the API are meant to see it          *)
(* (ReportStatus): it appears queued, may be seen running or failed and    *)
(* tried again, is completed once and for all, and may be deleted, for     *)
(* good, at any moment after it appeared.                                  *)
(***************************************************************************)
CONSTANTS Report, NoRow, Gone   \* Gone marks a report that was deleted
VARIABLE visible                \* what a SELECT of each report shows

Pending == {"queued", "running", "failed"}

Init == visible = [r \in Report |-> NoRow]

Change(r, from, to) ==
  /\ visible[r] \in from
  /\ visible' = [visible EXCEPT ![r] = to]

Create(r)   == Change(r, {NoRow}, "queued")
Run(r)      == Change(r, Pending, "running")
Fail(r)     == Change(r, Pending, "failed")
Complete(r) == Change(r, Pending, "completed")
Delete(r)   == Change(r, Pending \cup {"completed"}, Gone)

Next == \E r \in Report : Create(r) \/ Run(r) \/ Fail(r) \/ Complete(r) \/ Delete(r)

Spec == Init /\ [][Next]_visible
=============================================================================
