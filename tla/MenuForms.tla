----------------------------- MODULE MenuForms ------------------------------
(***************************************************************************)
(* The forms of the encoder display (fds_data and the fields of              *)
(* src/mui_menu.c), the menu task that leaves them for a mode and comes back   *)
(* (src/menu.cpp), the scale calibration dialogue, and the REST requests that  *)
(* change what the forms show or take the menu out of its form.               *)
(*                                                                         *)
(* A form is its number in fds_data.  The cursor may be on any field of it, so  *)
(* a press may do whatever one of its fields does.  The five digits of the     *)
(* weight are one number, weights are in thousandths, and a profile's values    *)
(* are the number of edits they went through.  What a mode does is in Trickler.  *)
(* X_Variant is X with a plausible mistake.                                  *)
(***************************************************************************)
EXTENDS Integers, Sequences

CONSTANTS
    MenuProfiles,  \* profiles that can be selected
    Numbers,       \* what the five digits may show, read as one number
    Requested,     \* target weights a REST request sets
    Room,          \* bound: events in the queue
    MaxVersions,   \* bound: edits of a profile
    MaxMenuRequests  \* bound: REST requests

ASSUME MenuFormsAssumption ==
    /\ Numbers \subseteq Nat /\ Requested \subseteq Nat
    /\ Room \in Nat /\ MaxVersions \in Nat /\ MaxMenuRequests \in Nat

VARIABLES
    form,       \* the active form; 0 when none is
    saved,      \* the form mui_SaveForm stored
    exitState,  \* exit_state: what the menu task is to start
    queue,      \* encoder events: presses, with the step shown, and overrides
    posting,    \* a REST request has set exitState and not yet posted its event
    mode,       \* what the menu task is running instead of the forms
    step,       \* of the calibration dialogue
    places,     \* decimal_places
    digits,     \* charge_weight_digits
    target,     \* target_charge_weight
    picked,     \* current_profile_idx
    versions,   \* per profile: edits of its values
    editor,     \* the profile editor: what it holds
    requests,   \* REST requests so far
    shown,      \* the weight the operator confirmed and the places it was shown with
    asked       \* modes somebody asked for since the menu task last looked

menuVars == <<form, saved, exitState, queue, posting, mode, step, places, digits, target,
              picked, versions, editor, requests, shown, asked>>
shownVars == <<places, digits, shown>>
profileVars == <<picked, versions, editor>>

-----------------------------------------------------------------------------
(* Where the fields of a form lead, as pairs of forms: MU and BN fields, and P0  *)
(* of 10 and 32.                                                             *)
From(f, S) == {<<f, g>> : g \in S}

StartForms == From(1, {10, 20, 40, 30}) \cup From(10, {1, 33}) \cup From(11, {13, 10})
    \cup From(12, {13, 10}) \cup From(13, {10}) \cup From(20, {1})
SettingsForms == From(30, {31, 32, 37, 39, 45, 46, 35, 36, 1}) \cup From(31, {53, 51, 30})
    \cup From(32, {33, 34, 30}) \cup From(34, {47, 38, 32}) \cup From(38, {47, 30, 34})
DeviceForms == From(37, {60, 61, 30}) \cup {<<f, 30>> : f \in {35, 36, 39, 45, 46}}
OtherForms == From(40, {41, 1}) \cup {<<51, 31>>, <<53, 31>>, <<60, 37>>, <<61, 37>>}

Ways == StartForms \cup SettingsForms \cup DeviceForms \cup OtherForms
Forms == {way[2] : way \in Ways}

(* The LV fields: the AppState_t a form leaves with.                          *)
Leaving == {13, 20, 35, 41, 51, 60, 61}
LeavesWith == [f \in Leaving |-> CASE f = 13 -> 1 [] f = 20 -> 5 [] f = 35 -> 9
    [] f = 41 -> 10 [] f = 51 -> 6 [] f = 60 -> 7 [] f = 61 -> 8]

(* What the titles and texts of those forms tell the operator.                *)
Says == [f \in Leaving |-> CASE f = 13 -> "charge" [] f = 20 -> "cleanup" [] f = 35 -> "reboot"
    [] f = 41 -> "wifi" [] f = 51 -> "calibration" [] f = 60 -> "save" [] f = 61 -> "erase"]

(* The codes of AppState_t, as the menu task's switch understands them.        *)
Codes == {0, 1, 2, 5, 6, 7, 8, 9, 10}
Starts == [e \in Codes |-> CASE e = 0 -> "forms" [] e \in {1, 2} -> "charge" [] e = 5 -> "cleanup"
    [] e = 6 -> "calibration" [] e = 7 -> "save" [] e = 8 -> "erase" [] e = 9 -> "reboot"
    [] e = 10 -> "wifi"]

(* The form a mode returns to.                                               *)
Returns == [m \in {"charge", "cleanup", "calibration", "save", "wifi"} |->
    CASE m = "calibration" -> 31 [] m = "save" -> 37 [] m = "wifi" -> 40 [] OTHER -> 1]

Restarting == {"reboot", "erase"}

(* What the digits say on a form with 2 or 3 places, in thousandths.           *)
WeightOn(f, n) == IF f = 11 THEN n * 10 ELSE n

(* The weight charge_mode_menu makes of the digits.                          *)
TargetOf_Variant(n) == CASE places = 2 -> n * 10 [] places = 3 -> n * 10 [] OTHER -> 0
TargetOf(n) == CASE places = 2 -> n * 10 [] places = 3 -> n [] OTHER -> 0

-----------------------------------------------------------------------------
NoEditor == [of |-> {}, edited |-> 0, moved |-> FALSE]

MenuInit ==
    /\ form = 1 /\ saved = 1 /\ exitState = 0 /\ queue = <<>> /\ posting = FALSE
    /\ mode = "forms" /\ step = 0 /\ places \in {2, 3} /\ digits = 0 /\ target = 0
    /\ picked \in MenuProfiles /\ versions = [p \in MenuProfiles |-> 0] /\ editor = NoEditor
    /\ requests = 0 /\ shown = [weight |-> 0, places |-> places] /\ asked = {}

(* The operator presses the knob while a page is shown; the interrupt drops the  *)
(* event when the queue is full.                                             *)
Press ==
    /\ Len(queue) < Room
    /\ queue' = Append(queue, <<step>>)
    /\ UNCHANGED <<form, saved, exitState, posting, mode, step, target, requests, asked>>
    /\ UNCHANGED shownVars /\ UNCHANGED profileVars

Override == <<>>
Pressed == queue # <<>> /\ Head(queue) # Override /\ queue' = Tail(queue)
InForm == form # 0 /\ mode = "forms"

(* profile_edit_load_values, when form 47 starts.                             *)
Load_Variant == IF editor.of = {} THEN [of |-> {picked}, edited |-> versions[picked], moved |-> FALSE]
                ELSE editor
Load == [of |-> {picked}, edited |-> versions[picked], moved |-> FALSE]

(* A field leads to another form.                                            *)
Follow(f) ==
    /\ InForm /\ Pressed /\ <<form, f>> \in Ways
    /\ form' = f
    /\ saved' = IF f = 33 THEN form ELSE saved
    /\ editor' = IF f = 47 THEN Load ELSE editor
    /\ shown' = IF f = 13 THEN [weight |-> WeightOn(form, digits), places |-> shown.places]
                ELSE shown
    /\ UNCHANGED <<exitState, posting, mode, step, places, digits, target, picked, versions,
                   requests, asked>>

(* render_charge_mode_next_button: the form for the places the scale has; with   *)
(* other places there is no such form and the menu stays.                      *)
WeightForm == CASE places = 2 -> 11 [] places = 3 -> 12 [] OTHER -> form
NextToWeight ==
    /\ form = 10 /\ InForm /\ Pressed
    /\ saved' = form
    /\ form' = WeightForm
    /\ shown' = [shown EXCEPT !.places = places]
    /\ UNCHANGED <<exitState, posting, mode, step, places, digits, target, requests, asked>>
    /\ UNCHANGED profileVars

TurnDigits(n) ==
    /\ form \in {11, 12} /\ InForm /\ Pressed
    /\ digits' = n
    /\ UNCHANGED <<form, saved, exitState, posting, mode, step, places, target, requests,
                   shown, asked>>
    /\ UNCHANGED profileVars

(* P1: the child list writes the selection and goes back to the saved form.     *)
PickProfile(p) ==
    /\ form = 33 /\ InForm /\ Pressed
    /\ picked' = p /\ form' = saved
    /\ UNCHANGED <<saved, exitState, posting, mode, step, target, versions, editor, requests, asked>>
    /\ UNCHANGED shownVars

-----------------------------------------------------------------------------
(* render_profile_editor: a value is turned, the values are written to the       *)
(* profile selected by now, or dropped.                                      *)
EditorTurn ==
    /\ form = 47 /\ InForm /\ Pressed /\ editor.edited < MaxVersions
    /\ editor' = [editor EXCEPT !.edited = @ + 1]
    /\ UNCHANGED <<form, saved, exitState, posting, mode, step, target, picked, versions,
                   requests, asked>>
    /\ UNCHANGED shownVars

EditorSave ==
    /\ form = 47 /\ InForm /\ Pressed
    /\ versions' = [versions EXCEPT ![picked] = editor.edited]
    /\ form' = 34
    /\ UNCHANGED <<saved, exitState, posting, mode, step, target, picked, editor, requests, asked>>
    /\ UNCHANGED shownVars

EditorCancel ==
    /\ form = 47 /\ InForm /\ Pressed
    /\ form' = 34
    /\ UNCHANGED <<saved, exitState, posting, mode, step, target, requests, asked>>
    /\ UNCHANGED shownVars /\ UNCHANGED profileVars

(* Fields that only change a value of the configuration: the gate's, the data   *)
(* collection's, the coarse reverse and the scale's.                          *)
ChangeValue ==
    /\ form \in {39, 45, 46, 53} /\ InForm /\ Pressed
    /\ UNCHANGED <<form, saved, exitState, posting, mode, step, target, requests, asked>>
    /\ UNCHANGED shownVars /\ UNCHANGED profileVars

-----------------------------------------------------------------------------
(* LV: the state is written and the form left.                               *)
LeaveForm ==
    /\ InForm /\ form \in Leaving /\ Pressed
    /\ exitState' = LeavesWith[form] /\ form' = 0
    /\ asked' = asked \cup {Says[form]}
    /\ UNCHANGED <<saved, posting, mode, step, target, requests>>
    /\ UNCHANGED shownVars /\ UNCHANGED profileVars

TakeOverride ==
    /\ InForm /\ queue # <<>> /\ Head(queue) = Override /\ queue' = Tail(queue)
    /\ saved' = form /\ form' = 0
    /\ UNCHANGED <<exitState, posting, mode, step, target, requests, asked>>
    /\ UNCHANGED shownVars /\ UNCHANGED profileVars

(* exit_state is read and reset in a critical section; then the switch.         *)
Taken_Variant == exitState
Taken == 0
Dispatch ==
    /\ form = 0 /\ mode = "forms"
    /\ exitState' = Taken /\ asked' = {}
    /\ mode' = Starts[exitState]
    /\ form' = IF exitState = 0 THEN 1 ELSE 0
    /\ target' = IF exitState = 1 THEN TargetOf(digits) ELSE target
    /\ UNCHANGED <<saved, queue, posting, step, requests>>
    /\ UNCHANGED shownVars /\ UNCHANGED profileVars

ModeEnds ==
    /\ \/ mode \in {"charge", "cleanup", "save", "wifi"}
       \/ mode = "calibration" /\ step = 7
    /\ mode' = "forms" /\ form' = Returns[mode] /\ step' = 0
    /\ UNCHANGED <<saved, exitState, queue, posting, target, requests, asked>>
    /\ UNCHANGED shownVars /\ UNCHANGED profileVars

(* Modes take events for their own purposes; none of them minds an override.    *)
ModeTakes ==
    /\ mode \in {"charge", "cleanup", "wifi"} /\ queue # <<>> /\ queue' = Tail(queue)
    /\ UNCHANGED <<form, saved, exitState, posting, mode, step, target, requests, asked>>
    /\ UNCHANGED shownVars /\ UNCHANGED profileVars

(* The calibration dialogue: even steps are waits of seconds, odd ones prompts   *)
(* that take events until one is a press.                                     *)
CalibrationWaits ==
    /\ mode = "calibration" /\ step \in {0, 2, 4, 6}
    /\ step' = step + 1
    /\ UNCHANGED <<form, saved, exitState, queue, posting, mode, target, requests, asked>>
    /\ UNCHANGED shownVars /\ UNCHANGED profileVars

CalibrationTakes ==
    /\ mode = "calibration" /\ step \in {1, 3, 5} /\ queue # <<>> /\ queue' = Tail(queue)
    /\ step' = IF Head(queue) = Override THEN step ELSE step + 1
    /\ UNCHANGED <<form, saved, exitState, posting, mode, target, requests, asked>>
    /\ UNCHANGED shownVars /\ UNCHANGED profileVars

(* software_reboot, after eeprom_erase or by itself: memory starts anew, the      *)
(* records with what was saved last or with the defaults.                     *)
Restart ==
    /\ mode \in Restarting
    /\ form' = 1 /\ saved' = 1 /\ exitState' = 0 /\ queue' = <<>> /\ posting' = FALSE
    /\ mode' = "forms" /\ step' = 0 /\ digits' = 0 /\ target' = 0 /\ editor' = NoEditor
    /\ asked' = {}
    /\ places' \in {2, 3} /\ picked' \in MenuProfiles
    /\ versions' \in {versions, [p \in MenuProfiles |-> 0]}
    /\ UNCHANGED <<requests, shown>>

-----------------------------------------------------------------------------
AnotherRequest == requests < MaxMenuRequests /\ requests' = requests + 1

(* Charge and cleanup requests: exit_state first, the event after it.           *)
RequestMode(code) ==
    /\ ~posting /\ AnotherRequest /\ Starts[code] # mode
    /\ exitState' = code /\ posting' = TRUE
    /\ asked' = asked \cup {Starts[code]}
    /\ UNCHANGED <<form, saved, queue, mode, step, target>>
    /\ UNCHANGED shownVars /\ UNCHANGED profileVars

PostOverride ==
    /\ posting /\ Len(queue) < Room
    /\ queue' = Append(queue, Override) /\ posting' = FALSE
    /\ UNCHANGED <<form, saved, exitState, mode, step, target, requests, asked>>
    /\ UNCHANGED shownVars /\ UNCHANGED profileVars

(* The request of the AI tuning does not wait for room.                        *)
DropOverride ==
    /\ posting /\ Len(queue) = Room
    /\ posting' = FALSE
    /\ UNCHANGED <<form, saved, exitState, queue, mode, step, target, requests, asked>>
    /\ UNCHANGED shownVars /\ UNCHANGED profileVars

RequestTarget(w) ==
    /\ AnotherRequest /\ target' = w
    /\ UNCHANGED <<form, saved, exitState, queue, posting, mode, step, asked>>
    /\ UNCHANGED shownVars /\ UNCHANGED profileVars

RequestPlaces(d) ==
    /\ AnotherRequest /\ d # places /\ places' = d
    /\ UNCHANGED <<form, saved, exitState, queue, posting, mode, step, digits, target, shown, asked>>
    /\ UNCHANGED profileVars

(* profile_config selects the profile it is asked about, and may edit it.        *)
RequestProfile(p) ==
    /\ AnotherRequest /\ picked' = p
    /\ versions' \in {versions} \cup {[versions EXCEPT ![p] = @ + 1] : n \in {1} \cap 1..(MaxVersions - versions[p])}
    /\ editor' = [editor EXCEPT !.moved = @ \/ form = 47]
    /\ UNCHANGED <<form, saved, exitState, queue, posting, mode, step, target, asked>>
    /\ UNCHANGED shownVars

MenuNext ==
    \/ Press \/ NextToWeight \/ EditorTurn \/ EditorSave \/ EditorCancel \/ ChangeValue
    \/ LeaveForm \/ TakeOverride \/ Dispatch \/ ModeEnds \/ ModeTakes
    \/ CalibrationWaits \/ CalibrationTakes \/ Restart \/ PostOverride \/ DropOverride
    \/ \E f \in Forms : Follow(f)
    \/ \E n \in Numbers : TurnDigits(n)
    \/ \E p \in MenuProfiles : PickProfile(p) \/ RequestProfile(p)
    \/ \E code \in {2, 5} : RequestMode(code)
    \/ \E w \in Requested : RequestTarget(w)
    \/ \E d \in {0, 2, 3} : RequestPlaces(d)
MenuSpec == MenuInit /\ [][MenuNext]_menuVars

-----------------------------------------------------------------------------
(* A charge started at the knob runs to the weight the operator confirmed on   *)
(* the form with its decimal point, if the places the scale is configured for   *)
(* are then those the form was chosen for (mui_menu.c's B1 and forms 11 to 13   *)
(* against charge_mode_menu).                                                *)
TargetAsShown ==
    [][exitState = 1 /\ mode' = "charge" /\ mode # "charge" /\ places = shown.places
        => target' = shown.weight]_menuVars

(* The same whatever requests change in between: not so in this code, where a   *)
(* change of the places moves the decimal point of a confirmed weight.          *)
TargetAlwaysAsShown ==
    [][exitState = 1 /\ mode' = "charge" /\ mode # "charge" => target' = shown.weight]_menuVars

(* What the menu task starts is what the operator confirmed, as the page said,  *)
(* or what a request asked for, since it last looked; in particular nothing is   *)
(* started a second time by an event left in the queue (menu_task's switch,      *)
(* the codes in fds_data and AppState_t).                                     *)
RunsWhatWasAsked == [][mode' # mode /\ mode' # "forms" => mode' \in asked]_menuVars

(* The editor writes to the profile whose values it showed, unless a request    *)
(* selected one while the editor was open (profile_edit_save_values).          *)
SavesWhereLoaded ==
    [][form = 47 /\ form' = 34 /\ versions' # versions
        => editor.moved \/ editor.of = {picked}]_menuVars

(* A prompt of the calibration is confirmed by a press that was made while it   *)
(* was shown: not so in this code, where presses made during a wait are kept.   *)
ConfirmsWhatIsShown ==
    [][mode = "calibration" /\ step \in {1, 3, 5} /\ step' # step
        => Head(queue) = <<step>>]_menuVars
=============================================================================
