----------------------------- MODULE MCScheduler -----------------------------
(* Workloads for Scheduler: which programs are loaded and what they call.    *)
EXTENDS SchedulerRefinement, TLC

NullTask == 8   \* null_task: it loops, calls nothing, and is loaded last

TwoLoaded   == <<0, 2, NullTask>>
ThreeLoaded == <<0, 2, 4, NullTask>>

\* Threads that spawn, forfeit and hit breakpoints, and two readers.
ProgramsCalls == 0 :> {"forfeit", "spawn_raw", "ebreak"} @@ 2 :> {"in_char"} @@
                 4 :> {"in_char", "forfeit"} @@ NullTask :> {}

\* Programs that make every call there is.
EveryCalls == 0 :> CallNames @@
              2 :> {"in_char", "ebreak", "spawn_thread", "drop"} @@ NullTask :> {}

\* Programs that end their threads.
DroppersCalls == 0 :> {"drop"} @@ 2 :> {"in_char", "drop"} @@ NullTask :> {}
=============================================================================
