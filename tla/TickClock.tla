------------------------------- MODULE TickClock -------------------------------
(***************************************************************************)
(* When the tick thread ticks, if the server runs with -t M: run_tick asks *)
(* for the time over and over, and walks the auctions (see AuctionServer)  *)
(* when exactly M seconds have gone by since it ended the last walk.       *)
(*                                                                         *)
(* Only the difference of the two times matters; it is counted up to one   *)
(* second more than M, after which it is never M again.                    *)
(***************************************************************************)
EXTENDS Integers

CONSTANT M \* seconds between ticks, 1 or more

VARIABLES pc,
          elapsed,   \* the time now, less previousTime
          difference \* currentTime, less previousTime

vars == <<pc, elapsed, difference>>

Init == pc = "time" /\ elapsed = 0 /\ difference = 0

SecondPasses ==
  /\ elapsed' = IF elapsed > M THEN elapsed ELSE elapsed + 1
  /\ UNCHANGED <<pc, difference>>

(* time and difftime *)
TakeTime ==
  /\ pc = "time"
  /\ difference' = elapsed
  /\ pc' = IF difference' = M THEN "walk" ELSE "time"
  /\ UNCHANGED elapsed

(* The walk, and previousTime = time(NULL) when it is over. *)
Walk ==
  /\ pc = "walk" /\ pc' = "time"
  /\ elapsed' = 0
  /\ UNCHANGED difference

RunTick == TakeTime \/ Walk

Next == SecondPasses \/ RunTick

FairSpec == Init /\ [][Next]_vars /\ WF_vars(SecondPasses) /\ WF_vars(RunTick)

(* "M seconds between time ticks" (displayHelpMenu): the thread ticks over *)
(* and over, and does not stop because it was kept waiting for a second.   *)
TicksGoOn == []<>(pc = "walk")
===============================================================================
