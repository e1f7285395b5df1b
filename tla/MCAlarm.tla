------------------------------ MODULE MCAlarm ------------------------------
(* TLC's instance of the alarms. *)
EXTENDS Alarm

\* The intervals of the instance; zevent_alarm_register takes 0 for one unit of
\* the clock.
MCDelays == {0, 2}
=============================================================================
