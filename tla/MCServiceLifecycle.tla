------------------------- MODULE MCServiceLifecycle -------------------------
(* Instances of ServiceLifecycle for TLC.                                  *)
EXTENDS ServiceLifecycle, TLC

CONSTANTS c1, c2, p1, p2

\* One thread of the application runs the service, another starts it too.
Threads == {c1, c2}
CallsOfThreads == c1 :> AllCalls @@ c2 :> {"Start"}

\* One thread for everything.
OneThread == {c1}
CallsOfOne == c1 :> AllCalls

=============================================================================
