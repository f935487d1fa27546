--------------------------- MODULE MCLeavePipeline ---------------------------
(* Small instances of LeavePipeline for TLC.                               *)
EXTENDS LeavePipeline, TLC

CONSTANTS a1, r1, r2, r3, e1, e2, i1, i2, h1, h2, h3, t1, t2

(* The dates the instances use: days without a time of day; and a time of  *)
(* day as a server five hours west of Greenwich reads it, where nine in the*)
(* evening of day 2 comes after the midnight UTC that day 3 begins with.   *)
Plain(day) == [read |-> Midnight(day), instant |-> Midnight(day)]
West(day, hour) == [read |-> Midnight(day) + 60 * hour,
                    instant |-> Midnight(day) + 60 * (hour + 5)]
DayOne == {Plain(1)}
DayThree == {Plain(3)}
DaysOneAndThree == {Plain(1), Plain(3)}
MorningAndDayThree == {West(1, 10), Plain(3)}
EveningAndDayThree == {West(2, 21), Plain(3)}
MorningOfThree == {West(3, 10)}
NoDates == {}

(* r1 and r2 are made for one employee, so that they may overlap; r3 is    *)
(* made for somebody who is not on file.                                   *)
OwnerOf == [r \in Requests |-> IF r = r3 THEN e2 ELSE e1]

(* h1 and h2 run on i1 and share a channel, h3 runs on i2.  With Prefetch  *)
(* = 2 both may have a message in hand; with Prefetch = 1 the second is    *)
(* busy only while the first has lost its channel.                         *)
HomeOf == [h \in Handlers |-> IF h = h3 THEN i2 ELSE i1]

(* h1 and h2 are interchangeable, and so are r1 and r2, and the instants.  *)
Twins == Permutations({h1, h2}) \cup Permutations({r1, r2})
             \cup Permutations(Times)
=============================================================================
