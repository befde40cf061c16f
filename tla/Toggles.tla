------------------------------- MODULE Toggles -------------------------------
(***************************************************************************)
(* Toggle and ToggleAction of src/toggle.hh and toggle_action.hh: a flag,  *)
(* and a callback that every set() calls, which may itself set or toggle   *)
(* the same flag.                                                          *)
(***************************************************************************)
EXTENDS Naturals, Sequences, SequencesExt

CONSTANT MaxDepth     \* bound: callbacks within callbacks

ASSUME DepthAssumption == MaxDepth \in Nat

VARIABLES state,
          calls,      \* the calls whose callback is running, innermost last
          announced,  \* the value that the latest callback was called with
          result,   \* by the latest call that returned: its kind and value
          copied      \* history: the state was assigned since the latest callback
togglesVars == <<state, calls, announced, result, copied>>

\* The constructor calls the callback, too.
TogglesInit ==
    /\ state \in BOOLEAN /\ announced = state
    /\ calls = <<>> /\ copied = FALSE
    /\ result = [by |-> "set", value |-> state]

\* set(), called by ..., up to the call of the callback.
set_state(by, s) ==
    /\ Len(calls) < MaxDepth
    /\ state' = s
    /\ announced' = s /\ copied' = FALSE
    /\ calls' = Append(calls, [by |-> by, requested |-> s])
    /\ UNCHANGED result

\* t = s, t(s), t.set(s);  t.toggle();  toggle(t)
assign(s) == set_state("set", s)
toggle == set_state("member", ~state)
free_toggle == set_state("free", ~state)

\* A faulty variant: the member returns what it asked for, like the others.
return_requested ==
    /\ calls # <<>>
    /\ result' = [by |-> Last(calls).by, value |-> Last(calls).requested]
    /\ calls' = Front(calls)
    /\ UNCHANGED <<state, announced, copied>>

\* The callback returns.  The member reads the state again, the others return
\* what they were called with.
return ==
    /\ calls # <<>>
    /\ result' = [by |-> Last(calls).by,
                    value |-> IF Last(calls).by = "member" THEN state ELSE Last(calls).requested]
    /\ calls' = Front(calls)
    /\ UNCHANGED <<state, announced, copied>>

\* Assigning another Toggle copies its state, without set() and the callback.
copy(s) ==
    /\ state' = s /\ copied' = TRUE
    /\ UNCHANGED <<calls, announced, result>>

TogglesNext == toggle \/ free_toggle \/ return \/ \E s \in BOOLEAN : assign(s) \/ copy(s)

TogglesSpec == TogglesInit /\ [][TogglesNext]_togglesVars

-----------------------------------------------------------------------------
\* Whatever the callbacks do to the flag, the one that was called last was told
\* its state, unless another Toggle was assigned to it.
AnnouncedState == ~copied => announced = state

\* What toggle() returns is what the latest callback was told, also if callbacks
\* set the flag again; not so what the free toggle() returns (toggle.hh:16, 34).
ToggleReturnsAnnounced ==
    [][Len(calls') < Len(calls) /\ Last(calls).by = "member" /\ ~copied => result'.value = announced]_togglesVars
\* Callbacks and callers are told the same.
TogglesTell == []AnnouncedState /\ ToggleReturnsAnnounced
=============================================================================
