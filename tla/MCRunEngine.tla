---------------------------- MODULE MCRunEngine ----------------------------
(***************************************************************************)
(* What the runs of RunEngine are given: one step alone, whose session     *)
(* reports and ends in every way; a build and a review that can send the   *)
(* work back; a fan-out of two members with its synthesis; one step under  *)
(* late reports and inputs that panic.                                     *)
(***************************************************************************)
EXTENDS RunEngine

AllTimers == RunPurposes \cup SlotPurposes

One ==
  [step |-> {"build"}, first |-> "build", members |-> [s \in {"build"} |-> <<"coder">>],
   fan_out |-> {}, next |-> [s \in {"build"} |-> NoStep], rework |-> [s \in {"build"} |-> NoStep],
   max_passes |-> [s \in {"build"} |-> 1], max_attempts |-> 2, max_holds |-> 1,
   beats |-> {}, causes |-> {"turn_complete"}, may |-> {}, fires |-> AllTimers,
   max_slots |-> 2, max_signals |-> 2]

Session ==
  [One EXCEPT !.beats = Beats, !.causes = Causes, !.may = {"group_lingers"}, !.max_signals = 3]

Back ==
  [One EXCEPT !.step = {"build", "review"},
              !.members = [s \in {"build", "review"} |-> IF s = "build" THEN <<"coder">> ELSE <<"reviewer">>],
              !.next = [s \in {"build", "review"} |-> IF s = "build" THEN "review" ELSE NoStep],
              !.rework = [s \in {"build", "review"} |-> IF s = "build" THEN NoStep ELSE "build"],
              !.max_passes = [s \in {"build", "review"} |-> 1],
              !.fires = {}, !.max_slots = 6]

Fan ==
  [One EXCEPT !.members = [s \in {"build"} |-> <<"ann", "bob">>], !.fan_out = {"build"},
              !.causes = {"failed", "hold"}, !.fires = {"start_deadline", "hold_retry"}, !.max_slots = 4]

Late ==
  [One EXCEPT !.causes = {"turn_complete", "permission_refused"}, !.may = {"late_start", "poison"},
              !.fires = {"start_deadline", "wind_down", "stop_grace_1"}]

Blind ==
  [One EXCEPT !.beats = {"subprocess_moved", "blind", "calls_open"}, !.may = {"sampler_fails"},
              !.max_attempts = 1, !.max_slots = 1]

Sound == [session |-> Session, back |-> Back, fan |-> Fan, late |-> Late]
SamplerFails == [blind |-> Blind]

=============================================================================
