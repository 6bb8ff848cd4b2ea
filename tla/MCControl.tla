------------------------------ MODULE MCControl ------------------------------
(***************************************************************************)
(* Instances of BarrierSyncServer for TLC: applications of three threads   *)
(* that make a few calls each.                                             *)
(***************************************************************************)
EXTENDS BarrierSyncServer, TLC

CONSTANTS t1, t2, t3

MCDelays == {2}
MCDurations == t1 :> {1} @@ t2 :> {5} @@ t3 :> {2}

Application(p1, p2, p3, until) ==
  [calls |-> t1 :> p1 @@ t2 :> p2 @@ t3 :> p3, until |-> until]

MCPrograms == {
  \* a monitor: waits that are notified one by one and all at once
  Application(<<"lock", "wait", "unlock">>,
              <<"create", "lock", "signal", "unlock">>,
              <<"lock", "unlock">>, 2),
  Application(<<"lock", "wait", "unlock">>,
              <<"create", "lock", "broadcast", "unlock">>,
              <<"lock", "wait">>, 2),
  \* sleeps and timeouts, also of the thread whose stall lets time advance
  Application(<<"create", "sleep", "exit">>,
              <<"sleep">>,
              <<"futexWait">>, 4),
  Application(<<"create", "futexWait", "futexWake">>,
              <<"futexWait", "futexRequeue">>,
              <<"futexWakeOp">>, 2),
  \* joins, barriers and blocking system calls
  Application(<<"create", "barrier", "join">>,
              <<"barrier", "sleep">>,
              <<"exit">>, 2),
  Application(<<"create", "block">>,
              <<"sleep", "barrier">>,
              <<"lock", "futexWait">>, 2)}
=============================================================================
