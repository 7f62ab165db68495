----------------------------- MODULE MCJobStatus -----------------------------
(* A sequential batch and a scan asked of the server, and a parallel batch  *)
(* made by hand, on two departments.                                        *)
EXTENDS JobStatus

CONSTANTS batch, make, scan

MCJobs == ({batch, make} \X {"qa", "seo"}) \cup {<<scan, "seo">>}
MCRunOf == [j \in MCJobs |-> j[1]]
MCDeptOf == [j \in MCJobs |-> j[2]]
==============================================================================
