------------------------------ MODULE NavTimer ------------------------------
(***************************************************************************)
(* The navigator's timers, navigator/ntimer.h.                             *)
(*                                                                         *)
(* A NavTimer counts navigator cycles, not wall-clock time: Check is       *)
(* called once in each cycle that needs the timer and takes one cycle off  *)
(* the time that remains, so a cycle that does not call it (the vehicle is *)
(* paused, or in another road state) does not bring the timer nearer to    *)
(* its expiration.  The pair (timer_running, time_remaining) is one        *)
(* integer: Cancelled when the timer is not running, otherwise the number  *)
(* of cycles that remain, 0 once it has expired.                           *)
(***************************************************************************)
EXTENDS Integers

Cancelled == -1

\* The values of a timer whose longest duration is d cycles.
Timers(d) == -1 .. d

\* Mutants of Checked: a timer that is not running is counted down as well; a
\* timer never reaches its last cycle.
CheckedWhenCancelled(t) == t - 1

CheckedToOne(t) == IF t > 1 THEN t - 1 ELSE t

\* The timer after the Check of one cycle.
Checked(t) == IF t > 0 THEN t - 1 ELSE t

\* What Check answers, asked of the timer it leaves behind.
Expired(t) == t = 0

\* Mutant of Start: it leaves a period that is still running alone.
StartUnlessRunning(t, d) == IF t > 0 THEN t ELSE d

\* Start always begins a new period.
Start(t, d) == d

\* Restart begins a new period unless one is still running.
Restart(t, d) == IF t > 0 THEN t ELSE d
=============================================================================
