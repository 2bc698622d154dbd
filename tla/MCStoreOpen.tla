---- MODULE MCStoreOpen ----
(* Instances of StoreOpen: two processes, one receivable, one month.        *)
EXTENDS StoreOpen

MCReleases ==
  {"new", "phase_two", "phase_three", "phase_four", "phase_five", "phase_six", "current"}
====
