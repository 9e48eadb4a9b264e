------------------------------- MODULE MCCron -------------------------------
(* A small instance of Cron: a job every second, one every other second, and *)
(* one whose schedule has a single activation.                                *)
EXTENDS Cron

CONSTANTS every, other, once

MCTimes == [j \in {every, other, once} |->
              CASE j = every -> 1..MaxTime
                [] j = other -> {t \in 1..MaxTime : t % 2 = 0}
                [] j = once  -> {1}]
=============================================================================
